---- MODULE Spec2Model ----
(***************************************************************************)
(* Record classification and extraction pipeline of the tardigrade fetcher *)
(* scripts: coordinate parsing, marker detection, region matching, eDNA    *)
(* classification, row routing and population grouping.                    *)
(*                                                                         *)
(* A Python str is a sequence of one-character strings; the accented       *)
(* letters of the token list are the atoms "a'", "e'", "i'", "o'".  A      *)
(* Python float is a signed count of units of 10^-FracDigits.              *)
(***************************************************************************)
EXTENDS Integers, Sequences, FiniteSets, TLC

VARIABLES
    REGION_FILTER_ENABLED,   \* region filter on/off
    USE_LATLON_BOX,          \* bounding-box check on/off
    CLASSIFY_EDNA,           \* eDNA split on/off
    EDNA_REGION_RELAXED,     \* eDNA rows kept without a region match
    COMPUTE_POPULATION_REP,  \* population grouping on/off
    pc,                      \* position of the run
    pieces,                  \* the pieces the argument of the call is made of
    ret,                     \* the value the call returned
    parsed,                  \* the records of the batch given to _build_rows_from_parsed
    idx,                     \* how many records of parsed the loop has gone through
    ind_rows,                \* rows kept as individuals
    edna_rows,               \* rows kept as eDNA
    drops,                   \* region drops of the batch
    reason_counts,           \* region reasons of the batch
    examples,                \* sample drop lines of the batch
    script,                  \* the script that runs: "A" the eDNA script, "B" the extraction script
    ENTREZ_EMAIL,            \* contact address of the configuration
    SEARCH_TERMS,            \* query terms of the configuration
    term_idx,                \* search terms main has gone through
    retstart,                \* esearch_ids: offset of the next page
    ids,                     \* esearch_ids: the IDs collected for the term
    all_ids,                 \* main: the IDs to fetch
    batch_index,             \* main: batches fetched (b)
    individuals,             \* main: individual rows of the run
    edna,                    \* main: eDNA rows of the run
    method,                  \* http_request: "GET" or "POST"
    attempts,                \* http_request: attempts made for the call
    outstanding,             \* requests sent and not yet answered
    requests,                \* requests sent since the start of the run
    slept,                   \* time slept since the last request was sent
    gap,                     \* time slept between the last two requests sent
    raw,                     \* the response http_request returned
    out,                     \* diagnostics printed by efetch_records
    written,                 \* the sheets given to write_xlsx
    status                   \* how the run ended

cfg == <<REGION_FILTER_ENABLED, USE_LATLON_BOX, CLASSIFY_EDNA,
         EDNA_REGION_RELAXED, COMPUTE_POPULATION_REP>>
batch == <<parsed, idx, ind_rows, edna_rows, drops, reason_counts, examples>>
net == <<method, attempts, outstanding, requests, slept, gap, raw>>
run == <<script, ENTREZ_EMAIL, SEARCH_TERMS, term_idx, retstart, ids, all_ids, batch_index,
         individuals, edna, net, out, written, status>>
vars == <<cfg, pc, pieces, ret, batch, run>>

----------------------------------------------------------------------------
(* Bounds of the model *)

\* fraction digits a float of the model carries
FracDigits == 3

----------------------------------------------------------------------------
(* Python str and float *)

None == <<"None">>

Digits == {"0","1","2","3","4","5","6","7","8","9"}
DigitChars == <<"0","1","2","3","4","5","6","7","8","9">>
DigitVal(c) == (CHOOSE d \in 1..10 : DigitChars[d] = c) - 1
Whitespace == {" ", "\t"}
Signs == {"+", "-"}

UpperCase == <<"A","B","C","D","E","F","G","H","I","J","K","L","M",
               "N","O","P","Q","R","S","T","U","V","W","X","Y","Z">>
LowerCase == <<"a","b","c","d","e","f","g","h","i","j","k","l","m",
               "n","o","p","q","r","s","t","u","v","w","x","y","z">>

\* str.lower() and str.upper()
lower(s) == <<>> \o [i \in 1..Len(s) |->
               IF \E k \in 1..26 : UpperCase[k] = s[i]
               THEN LowerCase[CHOOSE k \in 1..26 : UpperCase[k] = s[i]]
               ELSE s[i]]
upper(s) == <<>> \o [i \in 1..Len(s) |->
               IF \E k \in 1..26 : LowerCase[k] = s[i]
               THEN UpperCase[CHOOSE k \in 1..26 : LowerCase[k] = s[i]]
               ELSE s[i]]

\* t in s
contains(s, t) ==
    \E i \in 1..(Len(s) - Len(t) + 1) : \A k \in 1..Len(t) : s[i + k - 1] = t[k]

\* "".join(parts) and " ".join(parts)
RECURSIVE concat(_)
concat(parts) == IF parts = <<>> THEN <<>> ELSE Head(parts) \o concat(Tail(parts))
RECURSIVE join(_)
join(parts) ==
    IF parts = <<>> THEN <<>>
    ELSE IF Len(parts) = 1 THEN Head(parts)
    ELSE Head(parts) \o <<" ">> \o join(Tail(parts))

\* the first index from i on whose character is outside S (Len(s)+1 if none)
skip(s, i, S) ==
    CHOOSE j \in i..(Len(s) + 1) :
        /\ \A k \in i..(j - 1) : s[k] \in S
        /\ (j = Len(s) + 1 \/ s[j] \notin S)

\* str.strip()
strip(s) ==
    LET lo == skip(s, 1, Whitespace)
        hi == IF lo > Len(s) THEN Len(s)
              ELSE CHOOSE j \in lo..Len(s) :
                       /\ s[j] \notin Whitespace
                       /\ \A k \in (j + 1)..Len(s) : s[k] \in Whitespace
    IN SubSeq(s, lo, hi)

Scale == 10 ^ FracDigits

RECURSIVE NatOfDigits(_)
NatOfDigits(ds) ==
    IF ds = <<>> THEN 0
    ELSE 10 * NatOfDigits(SubSeq(ds, 1, Len(ds) - 1)) + DigitVal(ds[Len(ds)])

RECURSIVE StrOfNat(_)
StrOfNat(n) ==
    IF n < 10 THEN <<DigitChars[n + 1]>>
    ELSE StrOfNat(n \div 10) \o <<DigitChars[(n % 10) + 1]>>

\* the units of a fraction written as the digits fs (fs has at most FracDigits digits)
RECURSIVE FracUnits(_)
FracUnits(fs) ==
    IF Len(fs) >= FracDigits THEN NatOfDigits(SubSeq(fs, 1, FracDigits))
    ELSE FracUnits(fs \o <<"0">>)

\* float(s): [ok, neg, mag]; ok is FALSE where float() raises ValueError.
\* Accepts [ws] [sign] (digits [. [digits]] | . digits) [ws].
float(s) ==
    LET t == strip(s)
        neg == t # <<>> /\ t[1] = "-"
        b == IF t # <<>> /\ t[1] \in Signs THEN 2 ELSE 1
        d == skip(t, b, Digits)
        f == IF d <= Len(t) /\ t[d] = "." THEN skip(t, d + 1, Digits) ELSE d
        ip == SubSeq(t, b, d - 1)
        fp == SubSeq(t, d + 1, f - 1)
    IN IF s # None /\ f = Len(t) + 1 /\ (ip # <<>> \/ fp # <<>>)
       THEN [ok |-> TRUE, neg |-> neg, mag |-> NatOfDigits(ip) * Scale + FracUnits(fp)]
       ELSE [ok |-> FALSE, neg |-> FALSE, mag |-> 0]

\* the signed number of units of a float (-0.0 and 0.0 compare equal)
num(x) == IF x.neg THEN 0 - x.mag ELSE x.mag

\* f"{x}" of a float: shortest repr, always with a fraction
RECURSIVE trimZeros(_)
trimZeros(fs) ==
    IF Len(fs) > 1 /\ fs[Len(fs)] = "0" THEN trimZeros(SubSeq(fs, 1, Len(fs) - 1)) ELSE fs
RECURSIVE padZeros(_, _)
padZeros(ds, n) == IF Len(ds) >= n THEN ds ELSE padZeros(<<"0">> \o ds, n)
format_float(x) ==
    (IF x.neg THEN <<"-">> ELSE <<>>)
        \o StrOfNat(x.mag \div Scale) \o <<".">>
        \o trimZeros(padZeros(StrOfNat(x.mag % Scale), FracDigits))

----------------------------------------------------------------------------
(* parse_lat_lon *)

\* [0-9]+(?:\.[0-9]+)? at index i: the index after the match, 0 if none
decimal_end(s, i) ==
    LET j == skip(s, i, Digits) IN
    IF j = i THEN 0
    ELSE IF j + 1 <= Len(s) /\ s[j] = "." /\ s[j + 1] \in Digits
         THEN skip(s, j + 2, Digits)
         ELSE j

\* \d+(?:\.\d+)? where the sign prefix was forgotten
signed_end_nosign(s, i) == decimal_end(s, i)

\* [+-]?\d+(?:\.\d+)? at index i
signed_end(s, i) ==
    IF i <= Len(s) /\ s[i] \in Signs THEN decimal_end(s, i + 1) ELSE decimal_end(s, i)

\* a local assignment v = ...; the rest of the body reads the value as F's argument
Bind(v, F(_)) == CHOOSE r \in {F(w) : w \in {v}} : TRUE

NoPair == <<FALSE, <<>>, <<>>>>

\* re.match(r"^\s*(num)\s*[,;/]\s*(num)\s*$", s): <<matched, group 1, group 2>>
match_pair(s) ==
    Bind(skip(s, 1, Whitespace), LAMBDA a0 :
    Bind(signed_end(s, a0), LAMBDA a1 :
      IF a1 = 0 THEN NoPair ELSE
      Bind(skip(s, a1, Whitespace), LAMBDA b :
        IF ~(b <= Len(s) /\ s[b] \in {",", ";", "/"}) THEN NoPair ELSE
        Bind(skip(s, b + 1, Whitespace), LAMBDA c0 :
        Bind(signed_end(s, c0), LAMBDA c1 :
          IF c1 # 0 /\ skip(s, c1, Whitespace) = Len(s) + 1
          THEN <<TRUE, SubSeq(s, a0, a1 - 1), SubSeq(s, c0, c1 - 1)>>
          ELSE NoPair)))))

NoHemi == <<FALSE, <<>>, <<>>, <<>>, <<>>>>

\* the end of the run [^0-9\-+]* that starts at index i
skip_nonnumeric(s, i) ==
    CHOOSE j \in i..(Len(s) + 1) :
        /\ \A k \in i..(j - 1) : s[k] \notin Digits \cup Signs
        /\ (j = Len(s) + 1 \/ s[j] \in Digits \cup Signs)

\* the hemisphere pattern tried at index p: <<matched, g1, g2, g3, g4>>
hemi_at(s, p) ==
    Bind(decimal_end(s, p), LAMBDA a1 :
      IF a1 = 0 THEN NoHemi ELSE
      Bind(skip(s, a1, Whitespace), LAMBDA h :
        IF ~(h <= Len(s) /\ s[h] \in {"N", "S", "n", "s"}) THEN NoHemi ELSE
        Bind(skip_nonnumeric(s, h + 1), LAMBDA q :
          IF ~(q > h + 1 /\ q <= Len(s) /\ s[q] \in Digits) THEN NoHemi ELSE
          Bind(decimal_end(s, q), LAMBDA c1 :
          Bind(skip(s, c1, Whitespace), LAMBDA e :
            IF e <= Len(s) /\ s[e] \in {"E", "W", "e", "w"}
            THEN <<TRUE, SubSeq(s, p, a1 - 1), <<s[h]>>, SubSeq(s, q, c1 - 1), <<s[e]>>>>
            ELSE NoHemi)))))

\* re.search of the hemisphere pattern: the match at the leftmost index
search_hemi(s) ==
    Bind({hemi_at(s, p) : p \in 1..Len(s)}, LAMBDA all :
    Bind({p \in 1..Len(s) : \E m \in all : m[1] /\ m = hemi_at(s, p)}, LAMBDA hits :
      IF hits = {} THEN NoHemi
      ELSE hemi_at(s, CHOOSE p \in hits : \A r \in hits : p <= r)))

parse_lat_lon(s0) ==
    IF s0 = None \/ s0 = <<>> THEN <<<<>>, <<>>>>
    ELSE Bind(strip(s0), LAMBDA s :
         Bind(match_pair(s), LAMBDA m :
           IF m[1] THEN <<m[2], m[3]>>
           ELSE Bind(search_hemi(s), LAMBDA m2 :
             IF m2[1]
             THEN <<format_float([float(m2[2]) EXCEPT !.neg = (upper(m2[3]) = <<"S">>)]),
                    format_float([float(m2[4]) EXCEPT !.neg = (upper(m2[5]) = <<"W">>)])>>
             ELSE <<<<>>, <<>>>>)))

----------------------------------------------------------------------------
(* Configuration constants *)

\* West Coast box, in units of 10^-FracDigits degrees
LAT_MIN == 22 * Scale
LAT_MAX == 72 * Scale
LON_MIN == (0 - 180) * Scale
LON_MAX == (0 - 100) * Scale
REGION_ALLOW_PACIFIC_GENERAL == TRUE

REGION_TEXT_TOKENS == <<
    <<"a","l","a","s","k","a">>,
    <<"b","r","i","t","i","s","h"," ","c","o","l","u","m","b","i","a">>,
    <<"w","a","s","h","i","n","g","t","o","n">>,
    <<"o","r","e","g","o","n">>,
    <<"c","a","l","i","f","o","r","n","i","a">>,
    <<"b","a","j","a"," ","c","a","l","i","f","o","r","n","i","a">>,
    <<"b","a","j","a"," ","c","a","l","i","f","o","r","n","i","a"," ","s","u","r">>,
    <<"b","a","j","a"," ","c","a","l","i","f","o","r","n","i","a"," ","n","o","r","t","e">>,
    <<"u","s","a",":"," ","a","l","a","s","k","a">>,
    <<"u","s","a",":"," ","w","a","s","h","i","n","g","t","o","n">>,
    <<"u","s","a",":"," ","o","r","e","g","o","n">>,
    <<"u","s","a",":"," ","c","a","l","i","f","o","r","n","i","a">>,
    <<"c","a","n","a","d","a",":"," ","b","r","i","t","i","s","h"," ","c","o","l","u","m","b","i","a">>,
    <<"m","e","x","i","c","o",":"," ","b","a","j","a"," ","c","a","l","i","f","o","r","n","i","a">>,
    <<"m","e","x","i","c","o",":"," ","b","a","j","a"," ","c","a","l","i","f","o","r","n","i","a"," ","s","u","r">>,
    <<"m","e","x","i","c","o",":"," ","b","a","j","a"," ","c","a","l","i","f","o","r","n","i","a"," ","n","o","r","t","e">>,
    <<"u","s",":"," ","a","k">>,
    <<"u","s",":"," ","w","a">>,
    <<"u","s",":"," ","o","r">>,
    <<"u","s",":"," ","c","a">>,
    <<"u","s","a",":"," ","a","k">>,
    <<"u","s","a",":"," ","w","a">>,
    <<"u","s","a",":"," ","o","r">>,
    <<"u","s","a",":"," ","c","a">>,
    <<"c","a","n","a","d","a",":"," ","b","c">>,
    <<"c","a",":"," ","b","c">>,
    <<"m","e","x","i","c","o",":"," ","b","c">>,
    <<"m","e","x","i","c","o",":"," ","b","c","s">>,
    <<"m","e","x","i","c","o",":"," ","b","c","n">>,
    <<"b","c","s">>,
    <<"b","c","n">>,
    <<"p","a","c","i","f","i","c"," ","o","c","e","a","n">>,
    <<"n","o","r","t","h"," ","p","a","c","i","f","i","c">>,
    <<"e","a","s","t","e","r","n"," ","p","a","c","i","f","i","c">>,
    <<"n","o","r","t","h","e","a","s","t"," ","p","a","c","i","f","i","c">>,
    <<"c","a","l","i","f","o","r","n","i","a"," ","c","u","r","r","e","n","t">>,
    <<"w","e","s","t"," ","c","o","a","s","t">>,
    <<"g","u","l","f"," ","o","f"," ","a","l","a","s","k","a">>,
    <<"a","l","e","u","t","i","a","n">>,
    <<"p","r","i","n","c","e"," ","w","i","l","l","i","a","m"," ","s","o","u","n","d">>,
    <<"k","o","d","i","a","k">>,
    <<"k","e","n","a","i">>,
    <<"k","a","c","h","e","m","a","k">>,
    <<"s","o","u","t","h","e","a","s","t"," ","a","l","a","s","k","a">>,
    <<"s","i","t","k","a">>,
    <<"k","e","t","c","h","i","k","a","n">>,
    <<"j","u","n","e","a","u">>,
    <<"v","a","n","c","o","u","v","e","r"," ","i","s","l","a","n","d">>,
    <<"h","a","i","d","a"," ","g","w","a","i","i">>,
    <<"q","u","e","e","n"," ","c","h","a","r","l","o","t","t","e">>,
    <<"i","n","s","i","d","e"," ","p","a","s","s","a","g","e">>,
    <<"s","t","r","a","i","t"," ","o","f"," ","g","e","o","r","g","i","a">>,
    <<"s","a","l","i","s","h"," ","s","e","a">>,
    <<"j","u","a","n"," ","d","e"," ","f","u","c","a">>,
    <<"b","a","r","k","l","e","y"," ","s","o","u","n","d">>,
    <<"t","o","f","i","n","o">>,
    <<"u","c","l","u","e","l","e","t">>,
    <<"p","u","g","e","t"," ","s","o","u","n","d">>,
    <<"s","a","n"," ","j","u","a","n"," ","i","s","l","a","n","d","s">>,
    <<"o","l","y","m","p","i","c"," ","c","o","a","s","t">>,
    <<"g","r","a","y","s"," ","h","a","r","b","o","r">>,
    <<"w","i","l","l","a","p","a"," ","b","a","y">>,
    <<"c","o","l","u","m","b","i","a"," ","r","i","v","e","r">>,
    <<"t","i","l","l","a","m","o","o","k">>,
    <<"c","o","o","s"," ","b","a","y">>,
    <<"y","a","q","u","i","n","a">>,
    <<"n","e","w","p","o","r","t">>,
    <<"b","r","o","o","k","i","n","g","s">>,
    <<"o","r","e","g","o","n"," ","c","o","a","s","t">>,
    <<"h","u","m","b","o","l","d","t">>,
    <<"t","r","i","n","i","d","a","d"," ","h","e","a","d">>,
    <<"m","e","n","d","o","c","i","n","o">>,
    <<"b","o","d","e","g","a"," ","b","a","y">>,
    <<"p","o","i","n","t"," ","r","e","y","e","s">>,
    <<"s","a","n"," ","f","r","a","n","c","i","s","c","o"," ","b","a","y">>,
    <<"h","a","l","f"," ","m","o","o","n"," ","b","a","y">>,
    <<"m","o","n","t","e","r","e","y"," ","b","a","y">>,
    <<"m","o","s","s"," ","l","a","n","d","i","n","g">>,
    <<"c","a","r","m","e","l">>,
    <<"p","o","i","n","t"," ","l","o","b","o","s">>,
    <<"b","i","g"," ","s","u","r">>,
    <<"m","o","r","r","o"," ","b","a","y">>,
    <<"a","v","i","l","a">>,
    <<"p","i","s","m","o">>,
    <<"s","a","n","t","a"," ","b","a","r","b","a","r","a">>,
    <<"g","o","l","e","t","a">>,
    <<"s","a","n","t","a"," ","b","a","r","b","a","r","a"," ","c","h","a","n","n","e","l">>,
    <<"c","h","a","n","n","e","l"," ","i","s","l","a","n","d","s">>,
    <<"a","n","a","c","a","p","a">>,
    <<"s","a","n","t","a"," ","c","r","u","z"," ","i","s","l","a","n","d">>,
    <<"p","o","i","n","t"," ","c","o","n","c","e","p","t","i","o","n">>,
    <<"s","a","n","t","a"," ","c","a","t","a","l","i","n","a">>,
    <<"c","a","t","a","l","i","n","a"," ","i","s","l","a","n","d">>,
    <<"s","a","n"," ","p","e","d","r","o">>,
    <<"l","o","n","g"," ","b","e","a","c","h">>,
    <<"p","a","l","o","s"," ","v","e","r","d","e","s">>,
    <<"r","e","d","o","n","d","o">>,
    <<"s","a","n","t","a"," ","m","o","n","i","c","a"," ","b","a","y">>,
    <<"m","a","l","i","b","u">>,
    <<"v","e","n","t","u","r","a">>,
    <<"l","a"," ","j","o","l","l","a">>,
    <<"s","c","r","i","p","p","s"," ","p","i","e","r">>,
    <<"m","i","s","s","i","o","n"," ","b","a","y">>,
    <<"s","a","n"," ","d","i","e","g","o">>,
    <<"s","a","n"," ","d","i","e","g","o"," ","b","a","y">>,
    <<"i","m","p","e","r","i","a","l"," ","b","e","a","c","h">>,
    <<"e","n","s","e","n","a","d","a">>,
    <<"r","o","s","a","r","i","t","o">>,
    <<"s","a","n"," ","q","u","i","n","t","i'","n">>,
    <<"b","a","h","i'","a"," ","s","a","n"," ","q","u","i","n","t","i'","n">>,
    <<"b","a","h","i","a"," ","s","a","n"," ","q","u","i","n","t","i","n">>,
    <<"b","a","h","i'","a"," ","d","e"," ","l","o","s"," ","a'","n","g","e","l","e","s">>,
    <<"b","a","h","i","a"," ","d","e"," ","l","o","s"," ","a","n","g","e","l","e","s">>,
    <<"i","s","l","a"," ","d","e"," ","c","e","d","r","o","s">>,
    <<"b","a","h","i'","a"," ","t","o","r","t","u","g","a","s">>,
    <<"b","a","h","i","a"," ","t","o","r","t","u","g","a","s">>,
    <<"g","u","e","r","r","e","r","o"," ","n","e","g","r","o">>,
    <<"l","a","g","u","n","a"," ","o","j","o"," ","d","e"," ","l","i","e","b","r","e">>,
    <<"v","i","z","c","a","i'","n","o">>,
    <<"l","a","g","u","n","a"," ","s","a","n"," ","i","g","n","a","c","i","o">>,
    <<"b","a","h","i'","a"," ","m","a","g","d","a","l","e","n","a">>,
    <<"b","a","h","i","a"," ","m","a","g","d","a","l","e","n","a">>,
    <<"l","o","r","e","t","o">>,
    <<"b","a","h","i'","a"," ","c","o","n","c","e","p","c","i","o'","n">>,
    <<"b","a","h","i","a"," ","c","o","n","c","e","p","c","i","o","n">>,
    <<"m","u","l","e","g","e'">>,
    <<"m","u","l","e","g","e">>,
    <<"l","a"," ","p","a","z">>,
    <<"c","a","b","o"," ","s","a","n"," ","l","u","c","a","s">>,
    <<"s","a","n"," ","j","o","s","e'"," ","d","e","l"," ","c","a","b","o">>,
    <<"s","a","n"," ","j","o","s","e"," ","d","e","l"," ","c","a","b","o">>,
    <<"t","o","d","o","s"," ","s","a","n","t","o","s">>,
    <<"g","u","l","f"," ","o","f"," ","c","a","l","i","f","o","r","n","i","a">>,
    <<"s","e","a"," ","o","f"," ","c","o","r","t","e","z">>,
    <<"m","a","r"," ","d","e"," ","c","o","r","t","e'","s">>,
    <<"m","a","r"," ","d","e"," ","c","o","r","t","e","s">>
>>

\* the tokens of the general Pacific pass of region_match
PACIFIC_GENERAL_TOKENS == <<
    <<"p","a","c","i","f","i","c"," ","o","c","e","a","n">>, <<"n","o","r","t","h"," ","p","a","c","i","f","i","c">>, <<"e","a","s","t","e","r","n"," ","p","a","c","i","f","i","c">>,
    <<"n","o","r","t","h","e","a","s","t"," ","p","a","c","i","f","i","c">>, <<"c","a","l","i","f","o","r","n","i","a"," ","c","u","r","r","e","n","t">>, <<"w","e","s","t"," ","c","o","a","s","t">>
>>

EDNA_KEYWORDS == <<
    <<"e","d","n","a">>,
    <<"e","n","v","i","r","o","n","m","e","n","t","a","l"," ","d","n","a">>,
    <<"e","n","v","i","r","o","n","m","e","n","t","a","l"," ","s","a","m","p","l","e">>,
    <<"m","e","t","a","b","a","r","c","o","d","i","n","g">>,
    <<"m","e","t","a","g","e","n","o","m">>,
    <<"a","m","p","l","i","c","o","n">>,
    <<"b","u","l","k"," ","s","a","m","p","l","e">>,
    <<"s","e","a","w","a","t","e","r">>,
    <<"s","e","a"," ","w","a","t","e","r">>,
    <<"w","a","t","e","r"," ","f","i","l","t","e","r">>,
    <<"p","l","a","n","k","t","o","n">>,
    <<"s","e","d","i","m","e","n","t">>,
    <<"m","a","r","i","n","e"," ","s","e","d","i","m","e","n","t">>,
    <<"b","i","o","f","i","l","m">>
>>

----------------------------------------------------------------------------
(* pick_marker, detect_edna, region_match *)

MarkerKeys == {"COI", "18S", "28S", "ITS1", "ITS2"}

\* pick_marker with the COI test applied to the definition alone
pick_marker_definition_only(definition, feature_text) ==
    LET text == lower(definition \o <<" ">> \o feature_text)
        coi == contains(lower(definition), <<"c","o","i">>) \/ contains(lower(definition), <<"c","o","x","1">>)
                 \/ contains(lower(definition), <<"c","y","t","o","c","h","r","o","m","e"," ","o","x","i","d","a","s","e"," ","s","u","b","u","n","i","t"," ","i">>)
        s18 == contains(text, <<"1","8","s">>) \/ contains(text, <<"s","m","a","l","l"," ","s","u","b","u","n","i","t">>)
                 \/ contains(text, <<"s","s","u">>)
        s28 == contains(text, <<"2","8","s">>) \/ contains(text, <<"l","a","r","g","e"," ","s","u","b","u","n","i","t">>)
                 \/ contains(text, <<"l","s","u">>)
    IN   "COI"  :> (IF coi THEN <<"X">> ELSE <<>>)
      @@ "18S"  :> (IF s18 THEN <<"X">> ELSE <<>>)
      @@ "28S"  :> (IF s28 THEN <<"X">> ELSE <<>>)
      @@ "ITS1" :> (IF contains(text, <<"i","t","s","1">>) THEN <<"X">> ELSE <<>>)
      @@ "ITS2" :> (IF contains(text, <<"i","t","s","2">>) THEN <<"X">> ELSE <<>>)

pick_marker(definition, feature_text) ==
    Bind(lower(definition \o <<" ">> \o feature_text), LAMBDA text :
         "COI"  :> (IF contains(text, <<"c","o","i">>) \/ contains(text, <<"c","o","x","1">>)
                        \/ contains(text, <<"c","y","t","o","c","h","r","o","m","e"," ","o","x","i","d","a","s","e"," ","s","u","b","u","n","i","t"," ","i">>)
                    THEN <<"X">> ELSE <<>>)
      @@ "18S"  :> (IF contains(text, <<"1","8","s">>) \/ contains(text, <<"s","m","a","l","l"," ","s","u","b","u","n","i","t">>)
                        \/ contains(text, <<"s","s","u">>)
                    THEN <<"X">> ELSE <<>>)
      @@ "28S"  :> (IF contains(text, <<"2","8","s">>) \/ contains(text, <<"l","a","r","g","e"," ","s","u","b","u","n","i","t">>)
                        \/ contains(text, <<"l","s","u">>)
                    THEN <<"X">> ELSE <<>>)
      @@ "ITS1" :> (IF contains(text, <<"i","t","s","1">>) THEN <<"X">> ELSE <<>>)
      @@ "ITS2" :> (IF contains(text, <<"i","t","s","2">>) THEN <<"X">> ELSE <<>>))

\* f" {locality} {definition} {feature_text} ".lower()
blob_of(locality, definition, feature_text) ==
    lower(<<" ">> \o locality \o <<" ">> \o definition \o <<" ">> \o feature_text \o <<" ">>)

\* any(tok in blob for tok in toks)
any_in(toks, blob) == \E b \in {blob} : \E i \in 1..Len(toks) : contains(b, toks[i])

\* detect_edna that looks at the keywords only
detect_edna_keywords_only(locality, definition, feature_text, qualifier_names) ==
    IF ~CLASSIFY_EDNA THEN <<FALSE, "off">>
    ELSE IF any_in(EDNA_KEYWORDS, blob_of(locality, definition, feature_text))
         THEN <<TRUE, "keyword">>
    ELSE <<FALSE, "">>

\* detect_edna that classifies whatever CLASSIFY_EDNA says
detect_edna_flag_ignored(locality, definition, feature_text, qualifier_names) ==
    IF <<"e","n","v","i","r","o","n","m","e","n","t","a","l","_","s","a","m","p","l","e">> \in qualifier_names
            \/ <<"m","e","t","a","g","e","n","o","m","i","c">> \in qualifier_names
         THEN <<TRUE, "qualifier">>
    ELSE IF any_in(EDNA_KEYWORDS, blob_of(locality, definition, feature_text))
         THEN <<TRUE, "keyword">>
    ELSE <<FALSE, "">>

detect_edna(locality, definition, feature_text, qualifier_names) ==
    IF ~CLASSIFY_EDNA THEN <<FALSE, "off">>
    ELSE IF <<"e","n","v","i","r","o","n","m","e","n","t","a","l","_","s","a","m","p","l","e">> \in qualifier_names
            \/ <<"m","e","t","a","g","e","n","o","m","i","c">> \in qualifier_names
         THEN <<TRUE, "qualifier">>
    ELSE IF any_in(EDNA_KEYWORDS, blob_of(locality, definition, feature_text))
         THEN <<TRUE, "keyword">>
    ELSE <<FALSE, "">>

\* the box test with its four bounds exclusive
in_box_exclusive(lat_raw) ==
    Bind(parse_lat_lon(lat_raw), LAMBDA ll :
      /\ ll[1] # <<>> /\ ll[2] # <<>>
      /\ Bind(float(ll[1]), LAMBDA lat_f :
            lat_f.ok /\ LAT_MIN < num(lat_f) /\ num(lat_f) < LAT_MAX)
      /\ Bind(float(ll[2]), LAMBDA lon_f :
            lon_f.ok /\ LON_MIN < num(lon_f) /\ num(lon_f) < LON_MAX))

\* the lat/lon box fallback of region_match
in_box(lat_raw) ==
    Bind(parse_lat_lon(lat_raw), LAMBDA ll :
      /\ ll[1] # <<>> /\ ll[2] # <<>>
      /\ Bind(float(ll[1]), LAMBDA lat_f :
            lat_f.ok /\ LAT_MIN <= num(lat_f) /\ num(lat_f) <= LAT_MAX)
      /\ Bind(float(ll[2]), LAMBDA lon_f :
            lon_f.ok /\ LON_MIN <= num(lon_f) /\ num(lon_f) <= LON_MAX))

\* region_match with the token pass tried before the general Pacific pass
region_match_tokens_first(locality, definition, feature_text, lat_raw) ==
    LET blob == blob_of(locality, definition, feature_text) IN
    IF ~REGION_FILTER_ENABLED THEN <<TRUE, "disabled">>
    ELSE IF any_in(REGION_TEXT_TOKENS, blob) THEN <<TRUE, "text">>
    ELSE IF REGION_ALLOW_PACIFIC_GENERAL /\ any_in(PACIFIC_GENERAL_TOKENS, blob)
         THEN <<TRUE, "pacific">>
    ELSE IF USE_LATLON_BOX /\ lat_raw # None /\ lat_raw # <<>> /\ in_box(lat_raw)
         THEN <<TRUE, "latlon">>
    ELSE <<FALSE, "none">>

region_match(locality, definition, feature_text, lat_raw) ==
    LET blob == blob_of(locality, definition, feature_text) IN
    IF ~REGION_FILTER_ENABLED THEN <<TRUE, "disabled">>
    ELSE IF REGION_ALLOW_PACIFIC_GENERAL /\ any_in(PACIFIC_GENERAL_TOKENS, blob)
         THEN <<TRUE, "pacific">>
    ELSE IF any_in(REGION_TEXT_TOKENS, blob) THEN <<TRUE, "text">>
    ELSE IF USE_LATLON_BOX /\ lat_raw # None /\ lat_raw # <<>> /\ in_box(lat_raw)
         THEN <<TRUE, "latlon">>
    ELSE <<FALSE, "none">>

----------------------------------------------------------------------------
(* Row building and routing: _build_rows_from_parsed *)

DEBUG_SHOW_DROPS == 12
GROUP_ROUND == 2

FIELDS == <<"Species_ID", "COI", "18S", "28S", "ITS1", "ITS2",
            "Latitude", "Longitude", "Locality", "Depth",
            "Collection_Date", "Population_Representation", "Data_Type", "Citation_DOI">>

\* no batch is being built
NoBatch ==
    /\ parsed = <<>>
    /\ idx = 0
    /\ ind_rows = <<>>
    /\ edna_rows = <<>>
    /\ drops = 0
    /\ reason_counts = [r \in {"text", "latlon", "pacific"} |-> 0]
    /\ examples = <<>>

\* no run of main is under way
NoRun ==
    /\ script = "A"
    /\ ENTREZ_EMAIL = <<"m","a","b","3","6","1","@","h","u","m","b","o","l","d","t",".","e","d","u">>
    /\ SEARCH_TERMS = <<>>
    /\ term_idx = 0
    /\ retstart = 0
    /\ ids = <<>>
    /\ all_ids = <<>>
    /\ batch_index = 0
    /\ individuals = <<>>
    /\ edna = <<>>
    /\ method = "GET"
    /\ attempts = 0
    /\ outstanding = 0
    /\ requests = 0
    /\ slept = 0
    /\ gap = 0
    /\ raw = None
    /\ out = <<>>
    /\ written = None
    /\ status = "none"

\* " ".join(rec.get("feature_notes", []))
feat_text(rec) == join(rec.feature_notes)

\* the early skip that lets every record through
drop_early_never(ok_region, is_edna, region_on) == FALSE

\* if not ok_region and not is_edna and region_on
drop_early(ok_region, is_edna, region_on) == ~ok_region /\ ~is_edna /\ region_on

\* if is_edna and classify_edna
is_edna_row(is_edna, classify_edna) == is_edna /\ classify_edna

\* the eDNA rule without the relaxed flag
keep_edna_strict(region_on, ok_region, edna_relaxed) == ~region_on \/ ok_region

\* if (not region_on) or ok_region or edna_relaxed
keep_edna(region_on, ok_region, edna_relaxed) == ~region_on \/ ok_region \/ edna_relaxed

\* the individual rule that keeps nothing while the filter is off
keep_individual_filter_on(region_on, ok_region) == region_on /\ ok_region

\* if (not region_on) or ok_region
keep_individual(region_on, ok_region) == ~region_on \/ ok_region

\* the five marker columns of a row
marker_columns(markers, accession) ==
    [m \in MarkerKeys |-> IF markers[m] # <<>> THEN accession ELSE <<>>]

\* a row whose marker columns carry the flag pick_marker returned
build_row_flags(rec, is_edna, classify_edna) ==
    Bind(parse_lat_lon(rec.lat_raw), LAMBDA ll :
         ("Species_ID" :> rec.organism)
      @@ pick_marker(rec.definition, feat_text(rec))
      @@ ("Latitude" :> ll[1])
      @@ ("Longitude" :> ll[2])
      @@ ("Locality" :> rec.locality)
      @@ ("Depth" :> rec.depth)
      @@ ("Collection_Date" :> rec.date)
      @@ ("Population_Representation" :> <<>>)
      @@ ("Data_Type" :> IF is_edna_row(is_edna, classify_edna)
                         THEN <<"e","D","N","A">> ELSE <<"I","n","d","i","v","i","d","u","a","l">>)
      @@ ("Citation_DOI" :> rec.doi))

\* row = {...} of _build_rows_from_parsed
build_row(rec, is_edna, classify_edna) ==
    Bind(parse_lat_lon(rec.lat_raw), LAMBDA ll :
         ("Species_ID" :> rec.organism)
      @@ marker_columns(pick_marker(rec.definition, feat_text(rec)), rec.accession)
      @@ ("Latitude" :> ll[1])
      @@ ("Longitude" :> ll[2])
      @@ ("Locality" :> rec.locality)
      @@ ("Depth" :> rec.depth)
      @@ ("Collection_Date" :> rec.date)
      @@ ("Population_Representation" :> <<>>)
      @@ ("Data_Type" :> IF is_edna_row(is_edna, classify_edna)
                         THEN <<"e","D","N","A">> ELSE <<"I","n","d","i","v","i","d","u","a","l">>)
      @@ ("Citation_DOI" :> rec.doi))

\* row = {...} of _parse_insdseq_nodes in the extraction script
insdseq_row(rec) ==
    Bind(parse_lat_lon(rec.lat_raw), LAMBDA ll :
         ("Species_ID" :> rec.organism)
      @@ marker_columns(pick_marker(rec.definition, feat_text(rec)), rec.accession)
      @@ ("Latitude" :> ll[1])
      @@ ("Longitude" :> ll[2])
      @@ ("Locality" :> rec.locality)
      @@ ("Depth" :> rec.depth)
      @@ ("Collection_Date" :> rec.date)
      @@ ("Population_Representation" :> <<>>)
      @@ ("Data_Type" :> <<"I","n","d","i","v","i","d","u","a","l">>)
      @@ ("Citation_DOI" :> rec.doi))

\* f"{tag}{accession} | loc='{locality}' | def='{definition[:80]}'"
drop_line(tag, rec) ==
    tag \o rec.accession \o <<" ","|"," ","l","o","c","=","'">> \o rec.locality \o <<"'"," ","|"," ","d","e","f","=","'">>
        \o SubSeq(rec.definition, 1, IF Len(rec.definition) < 80 THEN Len(rec.definition) ELSE 80)
        \o <<"'">>

\* examples after one more drop
more_examples(line) ==
    IF Len(examples) < DEBUG_SHOW_DROPS THEN Append(examples, line) ELSE examples

\* the body of the loop over parsed, after the region and eDNA decisions
route(rec, ok_region, reason, is_edna) ==
    /\ reason_counts' = IF ok_region /\ reason \in DOMAIN reason_counts
                        THEN [reason_counts EXCEPT ![reason] = @ + 1]
                        ELSE reason_counts
    /\ IF drop_early(ok_region, is_edna, REGION_FILTER_ENABLED)
       THEN /\ drops' = drops + 1
            /\ examples' = more_examples(drop_line(<<"d","r","o","p",":"," ">>, rec))
            /\ UNCHANGED <<ind_rows, edna_rows>>
       ELSE IF is_edna_row(is_edna, CLASSIFY_EDNA)
       THEN IF keep_edna(REGION_FILTER_ENABLED, ok_region, EDNA_REGION_RELAXED)
            THEN /\ edna_rows' = Append(edna_rows, build_row(rec, is_edna, CLASSIFY_EDNA))
                 /\ UNCHANGED <<ind_rows, drops, examples>>
            ELSE /\ drops' = drops + 1
                 /\ examples' = more_examples(drop_line(<<"d","r","o","p","(","e","D","N","A",")",":"," ">>, rec))
                 /\ UNCHANGED <<ind_rows, edna_rows>>
       ELSE IF keep_individual(REGION_FILTER_ENABLED, ok_region)
            THEN /\ ind_rows' = Append(ind_rows, build_row(rec, is_edna, CLASSIFY_EDNA))
                 /\ UNCHANGED <<edna_rows, drops, examples>>
            ELSE UNCHANGED <<ind_rows, edna_rows, drops, examples>>

\* one iteration of: for rec in parsed
build_rows_from_parsed_rec ==
    /\ pc = "loop"
    /\ idx < Len(parsed)
    /\ \E rec \in {parsed[idx + 1]} :
       \E rm \in {region_match(rec.locality, rec.definition, feat_text(rec), rec.lat_raw)} :
       \E de \in {detect_edna(rec.locality, rec.definition, feat_text(rec), rec.qual_names)} :
          route(rec, rm[1], rm[2], de[1])
    /\ idx' = idx + 1
    /\ UNCHANGED <<cfg, pc, pieces, ret, parsed, run>>

\* return ind_rows, edna_rows
build_rows_from_parsed_return ==
    /\ pc = "loop"
    /\ idx = Len(parsed)
    /\ ret' = <<ind_rows, edna_rows>>
    /\ pc' = "done"
    /\ UNCHANGED <<cfg, pieces, batch, run>>

----------------------------------------------------------------------------
(* Population representation: add_population_rep *)

RECURSIVE pow2mod(_, _)
pow2mod(e, M) == IF e = 0 THEN 1 % M ELSE (2 * pow2mod(e - 1, M)) % M

\* floor(log2(m / b)) + k for m > 0
RECURSIVE log2floor(_, _, _)
log2floor(m, b, k) ==
    IF m < b THEN log2floor(2 * m, b, k - 1)
    ELSE IF m >= 2 * b THEN log2floor(m, 2 * b, k + 1)
    ELSE k

\* the sign of double(m / Scale) - m / Scale: the 53-bit significand is
\* m * 2^e / Scale rounded half-even, with 2^52 <= m * 2^e / Scale < 2^53
binary_error(m) ==
    IF m = 0 THEN 0
    ELSE Bind(((m % (2 * Scale)) * pow2mod(52 - log2floor(m, Scale, 0), 2 * Scale))
                 % (2 * Scale), LAMBDA R :
           IF R % Scale = 0 THEN 0
           ELSE IF 2 * (R % Scale) < Scale THEN 0 - 1
           ELSE IF 2 * (R % Scale) > Scale THEN 1
           ELSE IF R >= Scale THEN 1 ELSE 0 - 1)

\* round(x, n) of a float: correctly rounded from the binary value, exact ties to even
round(x, n) ==
    Bind(10 ^ (FracDigits - n), LAMBDA unit :
    Bind(x.mag \div unit, LAMBDA q :
    Bind(x.mag % unit, LAMBDA r :
      [x EXCEPT !.mag = unit *
          (IF 2 * r < unit THEN q
           ELSE IF 2 * r > unit THEN q + 1
           ELSE Bind(binary_error(x.mag), LAMBDA err :
                  IF err > 0 THEN q + 1
                  ELSE IF err < 0 THEN q
                  ELSE IF q % 2 = 0 THEN q ELSE q + 1))])))

\* r.get(k) or ""
or_empty(v) == IF v = None THEN <<>> ELSE v

\* the grouping key with the coordinates as written
population_key_unrounded(r) ==
    [species |-> r["Species_ID"], locality |-> r["Locality"],
     date |-> r["Collection_Date"], rounded |-> FALSE, lat_f |-> 0, lon_f |-> 0,
     lat |-> or_empty(r["Latitude"]), lon |-> or_empty(r["Longitude"])]

\* key = (Species_ID, Locality, Collection_Date, lat_f, lon_f): rounded numbers when
\* both coordinates parse (lat_f, lon_f), else the two strings as written (lat, lon)
population_key(r) ==
    Bind(float(or_empty(r["Latitude"])), LAMBDA a :
    Bind(float(or_empty(r["Longitude"])), LAMBDA b :
      IF a.ok /\ b.ok
      THEN [species |-> r["Species_ID"], locality |-> r["Locality"],
            date |-> r["Collection_Date"], rounded |-> TRUE,
            lat_f |-> num(round(a, GROUP_ROUND)), lon_f |-> num(round(b, GROUP_ROUND)),
            lat |-> <<>>, lon |-> <<>>]
      ELSE [species |-> r["Species_ID"], locality |-> r["Locality"],
            date |-> r["Collection_Date"], rounded |-> FALSE, lat_f |-> 0, lon_f |-> 0,
            lat |-> or_empty(r["Latitude"]), lon |-> or_empty(r["Longitude"])]))

\* the indexes of rows whose key is the key of row i
group_of(keys, i) == {j \in 1..Len(keys) : keys[j] = keys[i]}

\* add_population_rep that keeps one row per group
add_population_rep_regrouped(rows) ==
    IF ~COMPUTE_POPULATION_REP \/ rows = <<>> THEN rows
    ELSE Bind([i \in 1..Len(rows) |-> population_key(rows[i])], LAMBDA keys :
         Bind({i \in 1..Len(rows) : \A j \in group_of(keys, i) : i <= j}, LAMBDA firsts :
           [k \in 1..Cardinality(firsts) |->
              Bind(CHOOSE i \in firsts : Cardinality({j \in firsts : j <= i}) = k, LAMBDA i :
              Bind(Cardinality(group_of(keys, i)), LAMBDA n :
                [rows[i] EXCEPT !["Population_Representation"] =
                    IF n > 1 THEN StrOfNat(n) ELSE <<>>]))]))

add_population_rep(rows) ==
    IF ~COMPUTE_POPULATION_REP \/ rows = <<>> THEN rows
    ELSE Bind([i \in 1..Len(rows) |-> population_key(rows[i])], LAMBDA keys :
           [i \in 1..Len(rows) |->
              Bind(Cardinality(group_of(keys, i)), LAMBDA n :
                [rows[i] EXCEPT !["Population_Representation"] =
                    IF n > 1 THEN StrOfNat(n) ELSE <<>>])])

----------------------------------------------------------------------------
(* Calls of parse_lat_lon on composed texts *)

\* a composed lat/lon text: <<sign, number, hemisphere, separator, sign, number, hemisphere>>
LatLonNumbers == {<<"1","2",".","3">>, <<"3","6">>, <<"0">>, <<"0","0","7",".","5","0">>}
LatLonNS == {<<>>, <<"N">>, <<" ","N">>, <<"S">>, <<" ","s">>, <<" ","W">>}
LatLonEW == {<<" ","W">>, <<>>, <<"E">>, <<" ","E">>, <<"W">>, <<" ","w">>, <<" ","S">>}
LatLonSeps == {<<>>, <<" ">>, <<",">>, <<","," ">>, <<" ",";"," ">>, <<"/">>, <<" ","-"," ">>, <<" ","x"," ">>}
LatLonComposed ==
    {<<s1, a, ns, sep, s2, b, ew>> :
        s1 \in {<<>>, <<"-">>}, a \in LatLonNumbers, ns \in LatLonNS, sep \in LatLonSeps,
        s2 \in {<<>>, <<"-">>}, b \in {<<"4","5",".","6">>, <<"1","2","1",".","9">>, <<"0">>}, ew \in LatLonEW}
\* texts that are no composition: absent, empty, blank, padded, garbage, a lone number
LatLonRaw ==
    {<<None>>, <<<<>>>>, <<<<" "," "," ">>>>, <<<<"g","a","r","b","a","g","e">>>>, <<<<"1","2",".","3">>>>, <<<<" ","1","2",".","3",",","-","4","5",".","6"," ">>>>,
     <<<<"1","2",".","3",",","-","4","5",".","6"," ","x">>>>, <<<<"a","t"," ","1","2",".","3"," ","N"," ","4","5",".","6"," ","W"," ","a","p","p","r","o","x">>>>, <<<<"1","2",".","3"," ","N"," ","4","5",".","6">>>>,
     <<<<"N"," ","1","2",".","3"," ","W"," ","4","5",".","6">>>>, <<<<"1","2",".","3",".","4"," ","N"," ","5"," ","E">>>>, <<<<"1"," ","N"," ","2"," ","E"," ","3"," ","S"," ","4"," ","W">>>>,
     <<<<"1","2",".","3","\t","S","\t","4","5",".","6","\t","E">>>>, <<<<"+","1","2",".","3",";","+","4","5",".","6">>>>, <<<<"1","2","."," ","N"," ","4","5",".","6"," ","W">>>>}
LatLonInputs == LatLonComposed \cup LatLonRaw

DefaultCfg ==
    /\ REGION_FILTER_ENABLED = TRUE
    /\ USE_LATLON_BOX = TRUE
    /\ CLASSIFY_EDNA = TRUE
    /\ EDNA_REGION_RELAXED = TRUE
    /\ COMPUTE_POPULATION_REP = TRUE

InitLatLon ==
    /\ DefaultCfg
    /\ pc = "call"
    /\ pieces \in LatLonInputs
    /\ ret = <<>>
    /\ NoBatch
    /\ NoRun

Call_parse_lat_lon ==
    /\ pc = "call"
    /\ ret' = parse_lat_lon(concat(pieces))
    /\ pc' = "done"
    /\ UNCHANGED <<cfg, pieces, batch, run>>

NextLatLon == Call_parse_lat_lon

SpecLatLon == InitLatLon /\ [][NextLatLon]_vars

----------------------------------------------------------------------------
(* C10: parse_lat_lon *)

\* the composed text is a decimal pair: no hemisphere letters, separator , ; or /
PairShape(p) ==
    /\ Len(p) = 7
    /\ p[3] = <<>> /\ p[7] = <<>>
    /\ strip(p[4]) \in {<<",">>, <<";">>, <<"/">>}
\* the composed text carries N|S after the first number and E|W after the second,
\* which is unsigned
HemiShape(p) ==
    /\ Len(p) = 7
    /\ p[5] = <<>>
    /\ strip(p[3]) \in {<<"N">>, <<"S">>, <<"n">>, <<"s">>}
    /\ strip(p[7]) \in {<<"E">>, <<"W">>, <<"e">>, <<"w">>}
\* the text between the first hemisphere letter and the second number
Separator(p) == p[4]
NoDigits(t) == t # <<>> /\ \A i \in 1..Len(t) : t[i] \notin Digits
NoDigitsNoSigns(t) == t # <<>> /\ \A i \in 1..Len(t) : t[i] \notin Digits \cup Signs
\* ret holds the magnitudes of the two numbers, negative for S and for W
HemiResult(p) ==
    LET la == float(ret[1])
        lo == float(ret[2])
    IN /\ la.ok /\ lo.ok
       /\ la.mag = float(p[2]).mag /\ lo.mag = float(p[6]).mag
       /\ la.neg = (strip(p[3]) \in {<<"S">>, <<"s">>})
       /\ lo.neg = (strip(p[7]) \in {<<"W">>, <<"w">>})
\* raw texts of neither form
LatLonJunk ==
    {<<None>>, <<<<>>>>, <<<<" "," "," ">>>>, <<<<"g","a","r","b","a","g","e">>>>, <<<<"1","2",".","3">>>>, <<<<"1","2",".","3",",","-","4","5",".","6"," ","x">>>>,
     <<<<"1","2",".","3"," ","N"," ","4","5",".","6">>>>, <<<<"N"," ","1","2",".","3"," ","W"," ","4","5",".","6">>>>, <<<<"1","2","."," ","N"," ","4","5",".","6"," ","W">>>>}
Empties == <<<<>>, <<>>>>

\* C10 as stated: a decimal pair is returned as written; the hemisphere form with
\* any separator free of digits gives the signed magnitudes; every other input
\* gives ("", "").
C10_AsStated ==
    pc = "done" =>
        /\ PairShape(pieces) => ret = <<pieces[1] \o pieces[2], pieces[5] \o pieces[6]>>
        /\ HemiShape(pieces) /\ NoDigits(Separator(pieces)) => HemiResult(pieces)
        /\ pieces \in LatLonJunk => ret = Empties
        /\ Len(pieces) = 7 /\ ~PairShape(pieces)
              /\ ~(HemiShape(pieces) /\ NoDigits(Separator(pieces))) => ret = Empties

\* C10 (amended): parse_lat_lon is total; a sign-prefixed decimal pair separated
\* by comma, semicolon or slash is returned as written; otherwise the hemisphere
\* form whose separator is a non-empty run of characters other than digits, "+"
\* and "-" gives the two magnitudes, the latitude negated for S or s and the
\* longitude negated for W or w; every other input, empty or absent input
\* included, gives ("", "").
C10_ParseLatLon ==
    pc = "done" =>
        /\ PairShape(pieces) => ret = <<pieces[1] \o pieces[2], pieces[5] \o pieces[6]>>
        /\ HemiShape(pieces) /\ NoDigitsNoSigns(Separator(pieces)) => HemiResult(pieces)
        /\ pieces \in LatLonJunk => ret = Empties
        /\ Len(pieces) = 7 /\ ~PairShape(pieces)
              /\ ~(HemiShape(pieces) /\ NoDigitsNoSigns(Separator(pieces))) => ret = Empties

\* "12.3 N 45.6 W" has been parsed to ("12.3", "-45.6")
C10_Witness ==
    /\ pc = "done"
    /\ pieces = <<<<>>, <<"1","2",".","3">>, <<" ","N">>, <<" ">>, <<>>, <<"4","5",".","6">>, <<" ","W">>>>
    /\ ret = <<<<"1","2",".","3">>, <<"-","4","5",".","6">>>>

----------------------------------------------------------------------------
(* Calls of pick_marker on composed texts *)

\* definition fragments drawn per definition
MaxDefinitionFragments == 2

MarkerFragments ==
    {<<"C","O">>, <<"I">>, <<"C","o","X">>, <<"1">>, <<"1","8">>, <<"S">>, <<"s","u">>, <<"2","8">>, <<"L">>, <<"i","t","s">>, <<"2">>,
     <<" ">>, <<"s","m","a","l","l">>, <<"s","u","b","u","n","i","t">>, <<"l","a","r","g","e"," ">>, <<"c","y","t","o","c","h","r","o","m","e"," ","o","x","i","d","a","s","e"," ">>, <<"g","e","n","e">>}
MarkerFeatureTexts == {<<>>, <<"s","u","b","u","n","i","t"," ","i">>, <<"I","T","S","2">>, <<"i">>, <<"p","a","r","t","i","a","l"," ","c","d","s">>}

RECURSIVE Compositions(_, _)
Compositions(frags, n) ==
    IF n = 0 THEN {<<>>}
    ELSE Compositions(frags, n - 1)
           \cup {c \o f : c \in Compositions(frags, n - 1), f \in frags}

MarkerInputs ==
    {<<d, f>> : d \in Compositions(MarkerFragments, MaxDefinitionFragments),
                f \in MarkerFeatureTexts}

InitMarker ==
    /\ DefaultCfg
    /\ pc = "call"
    /\ pieces \in MarkerInputs
    /\ ret = <<>>
    /\ NoBatch
    /\ NoRun

Call_pick_marker ==
    /\ pc = "call"
    /\ ret' = pick_marker(pieces[1], pieces[2])
    /\ pc' = "done"
    /\ UNCHANGED <<cfg, pieces, batch, run>>

NextMarker == Call_pick_marker

SpecMarker == InitMarker /\ [][NextMarker]_vars

----------------------------------------------------------------------------
(* Calls of region_match and of detect_edna on record texts *)

RegionLocalities ==
    {<<>>, <<"M","o","n","t","e","r","e","y"," ","B","a","y">>, <<"U","S","A",":"," ","C","a","l","i","f","o","r","n","i","a",":"," ","M","o","n","t","e","r","e","y"," ","B","a","y">>, <<"J","a","p","a","n",":"," ","O","k","i","n","a","w","a">>,
     <<"N","o","r","t","h"," ","P","a","c","i","f","i","c">>, <<"M","e","x","i","c","o",":"," ","L","a">>, <<"A","t","l","a","n","t","i","c"," ","O","c","e","a","n">>}
RegionDefinitions ==
    {<<>>, <<"C","O","I"," ","g","e","n","e",","," ","p","a","r","t","i","a","l"," ","c","d","s">>, <<"P","a","z"," ","i","s","o","l","a","t","e"," ","1","8","S">>, <<"P","a","c","i","f","i","c"," ","O","c","e","a","n"," ","i","s","o","l","a","t","e">>,
     <<"e","D","N","A"," ","m","e","t","a","b","a","r","c","o","d","i","n","g"," ","s","e","a","w","a","t","e","r"," ","s","a","m","p","l","e">>}
RegionFeatureTexts == {<<>>, <<"i","n","t","e","r","t","i","d","a","l"," ","b","a","r","n","a","c","l","e","s">>, <<"W","e","s","t"," ","C","o","a","s","t"," ","k","e","l","p"," ","h","o","l","d","f","a","s","t">>}
RegionLatLons ==
    {None, <<>>, <<"3","6",".","5"," ","N"," ","1","2","1",".","9"," ","W">>, <<"3","6",".","5",","," ","-","1","2","1",".","9">>, <<"0",","," ","0">>, <<"2","2"," ","N"," ","1","0","0"," ","W">>,
     <<"7","2"," ","N"," ","1","8","0"," ","W">>, <<"7","2",".","0","0","1"," ","N"," ","1","2","0"," ","W">>, <<"2","1",".","9","9","9"," ","N"," ","1","2","0"," ","W">>, <<"3","6",".","5"," ","N"," ","9","9",".","9","9","9"," ","W">>,
     <<"3","6",".","5"," ","N"," ","1","2","1",".","9"," ","E">>, <<"3","6",".","5"," ","S"," ","1","2","1",".","9"," ","W">>, <<"u","n","k","n","o","w","n">>}
RegionInputs ==
    {<<l, d, f, ll>> : l \in RegionLocalities, d \in RegionDefinitions,
                       f \in RegionFeatureTexts, ll \in RegionLatLons}

InitRegion ==
    /\ REGION_FILTER_ENABLED \in BOOLEAN
    /\ USE_LATLON_BOX \in BOOLEAN
    /\ CLASSIFY_EDNA = TRUE
    /\ EDNA_REGION_RELAXED = TRUE
    /\ COMPUTE_POPULATION_REP = TRUE
    /\ pc = "call"
    /\ pieces \in RegionInputs
    /\ ret = <<>>
    /\ NoBatch
    /\ NoRun

Call_region_match ==
    /\ pc = "call"
    /\ ret' = region_match(pieces[1], pieces[2], pieces[3], pieces[4])
    /\ pc' = "done"
    /\ UNCHANGED <<cfg, pieces, batch, run>>

NextRegion == Call_region_match

SpecRegion == InitRegion /\ [][NextRegion]_vars

EdnaLocalities == {<<>>, <<"M","o","n","t","e","r","e","y"," ","B","a","y">>, <<"b","u","l","k">>, <<"S","e","a">>}
EdnaDefinitions ==
    {<<>>, <<"C","O","I"," ","g","e","n","e",","," ","p","a","r","t","i","a","l"," ","c","d","s">>, <<"e","D","N","A"," ","m","e","t","a","b","a","r","c","o","d","i","n","g"," ","s","e","a","w","a","t","e","r"," ","s","a","m","p","l","e">>,
     <<"s","a","m","p","l","e"," ","1","2">>, <<"W","a","t","e","r"," ","f","i","l","t","e","r"," ","r","e","t","e","n","t","a","t","e">>, <<"E","n","v","i","r","o","n","m","e","n","t","a","l"," ","D","N","A"," ","i","s","o","l","a","t","e">>}
EdnaFeatureTexts == {<<>>, <<"S","e","d","i","m","e","n","t"," ","c","o","r","e">>, <<"i","n","t","e","r","t","i","d","a","l"," ","b","a","r","n","a","c","l","e","s">>}
EdnaQualifierNames ==
    {{}, {<<"o","r","g","a","n","i","s","m">>, <<"c","o","u","n","t","r","y">>}, {<<"o","r","g","a","n","i","s","m">>, <<"e","n","v","i","r","o","n","m","e","n","t","a","l","_","s","a","m","p","l","e">>},
     {<<"m","e","t","a","g","e","n","o","m","i","c">>}, {<<"o","r","g","a","n","i","s","m">>, <<"m","e","t","a","g","e","n","o","m","e","_","s","o","u","r","c","e">>}}
EdnaInputs ==
    {<<l, d, f, q>> : l \in EdnaLocalities, d \in EdnaDefinitions,
                      f \in EdnaFeatureTexts, q \in EdnaQualifierNames}

InitEdna ==
    /\ REGION_FILTER_ENABLED = TRUE
    /\ USE_LATLON_BOX = TRUE
    /\ CLASSIFY_EDNA \in BOOLEAN
    /\ EDNA_REGION_RELAXED = TRUE
    /\ COMPUTE_POPULATION_REP = TRUE
    /\ pc = "call"
    /\ pieces \in EdnaInputs
    /\ ret = <<>>
    /\ NoBatch
    /\ NoRun

Call_detect_edna ==
    /\ pc = "call"
    /\ ret' = detect_edna(pieces[1], pieces[2], pieces[3], pieces[4])
    /\ pc' = "done"
    /\ UNCHANGED <<cfg, pieces, batch, run>>

NextEdna == Call_detect_edna

SpecEdna == InitEdna /\ [][NextEdna]_vars

----------------------------------------------------------------------------
(* C1: region_match *)

\* the lower-cased combination of locality, definition and feature text
Combined(p) == lower(p[1] \o <<" ">> \o p[2] \o <<" ">> \o p[3])
PacificHit(p) == \E c \in {Combined(p)} : \E i \in 1..Len(PACIFIC_GENERAL_TOKENS) :
                    contains(c, PACIFIC_GENERAL_TOKENS[i])
TokenHit(p) == \E c \in {Combined(p)} : \E i \in 1..Len(REGION_TEXT_TOKENS) :
                  contains(c, REGION_TEXT_TOKENS[i])
\* the raw lat/lon parses and lies in the bounding box
BoxHit(p) == p[4] # None /\ p[4] # <<>> /\ in_box(p[4])

\* C1 as stated: disabled, pacific, text, latlon, none, in that order, the
\* latlon rule asking only that the raw lat/lon parses and lies in the box.
C1_AsStated ==
    pc = "done" =>
        ret = IF ~REGION_FILTER_ENABLED THEN <<TRUE, "disabled">>
              ELSE IF PacificHit(pieces) THEN <<TRUE, "pacific">>
              ELSE IF TokenHit(pieces) THEN <<TRUE, "text">>
              ELSE IF BoxHit(pieces) THEN <<TRUE, "latlon">>
              ELSE <<FALSE, "none">>

\* C1 (amended): region_match returns the first hit of a fixed order:
\* (match, "disabled") for every input when region filtering is disabled;
\* otherwise (match, "pacific") if a general-Pacific token occurs in the combined
\* lower-cased text, else (match, "text") if a configured locality token occurs
\* in it, else (match, "latlon") if the bounding-box check is enabled and the raw
\* lat/lon parses and lies in the box, else (no match, "none").  A text hit
\* decides the result whatever the coordinates are.
C1_RegionMatchOrder ==
    pc = "done" =>
        ret = IF ~REGION_FILTER_ENABLED THEN <<TRUE, "disabled">>
              ELSE IF PacificHit(pieces) THEN <<TRUE, "pacific">>
              ELSE IF TokenHit(pieces) THEN <<TRUE, "text">>
              ELSE IF USE_LATLON_BOX /\ BoxHit(pieces) THEN <<TRUE, "latlon">>
              ELSE <<FALSE, "none">>

\* "Monterey Bay" at lat 0, lon 0 has matched by its text
C1_Witness ==
    /\ pc = "done"
    /\ REGION_FILTER_ENABLED
    /\ pieces = <<<<"M","o","n","t","e","r","e","y"," ","B","a","y">>, <<>>, <<>>, <<"0",","," ","0">>>>
    /\ ret = <<TRUE, "text">>

----------------------------------------------------------------------------
(* C5: detect_edna *)

QualifierHit(p) == <<"e","n","v","i","r","o","n","m","e","n","t","a","l","_","s","a","m","p","l","e">> \in p[4] \/ <<"m","e","t","a","g","e","n","o","m","i","c">> \in p[4]
KeywordHit(p) == \E i \in 1..Len(EDNA_KEYWORDS) : contains(Combined(p), EDNA_KEYWORDS[i])

\* C5: with eDNA classification enabled, detect_edna returns true exactly when the
\* qualifier names contain "environmental_sample" or "metagenomic", or an eDNA
\* keyword is a substring of the lower-cased combination of locality, definition
\* and feature text; in every other case the record is an individual.
C5_DetectEdna ==
    pc = "done" /\ CLASSIFY_EDNA =>
        ret[1] = (QualifierHit(pieces) \/ KeywordHit(pieces))

\* a record without any keyword is eDNA by its "metagenomic" qualifier
C5_Witness ==
    /\ pc = "done"
    /\ CLASSIFY_EDNA
    /\ pieces = <<<<>>, <<"C","O","I"," ","g","e","n","e",","," ","p","a","r","t","i","a","l"," ","c","d","s">>, <<>>, {<<"m","e","t","a","g","e","n","o","m","i","c">>}>>
    /\ ret = <<TRUE, "qualifier">>

----------------------------------------------------------------------------
(* C7: pick_marker *)

MarkerKeywords ==
       "COI"  :> {<<"c","o","i">>, <<"c","o","x","1">>, <<"c","y","t","o","c","h","r","o","m","e"," ","o","x","i","d","a","s","e"," ","s","u","b","u","n","i","t"," ","i">>}
    @@ "18S"  :> {<<"1","8","s">>, <<"s","m","a","l","l"," ","s","u","b","u","n","i","t">>, <<"s","s","u">>}
    @@ "28S"  :> {<<"2","8","s">>, <<"l","a","r","g","e"," ","s","u","b","u","n","i","t">>, <<"l","s","u">>}
    @@ "ITS1" :> {<<"i","t","s","1">>}
    @@ "ITS2" :> {<<"i","t","s","2">>}
\* the lower-cased text pick_marker looks at
MarkerText(p) == lower(p[1] \o <<" ">> \o p[2])
Flagged(flags) == {m \in MarkerKeys : flags[m] = <<"X">>}

\* C7: each flag is "X" exactly when one of its marker's keywords occurs in the
\* lower-cased text and "" otherwise, independently of the other flags; text
\* without any keyword gives no flag, "COX1" in any case gives COI, and the text
\* "18S ITS2" gives exactly 18S and ITS2.
C7_PickMarker ==
    pc = "done" =>
        /\ DOMAIN ret = MarkerKeys
        /\ \A m \in MarkerKeys :
              ret[m] = IF \E kw \in MarkerKeywords[m] : contains(MarkerText(pieces), kw)
                       THEN <<"X">> ELSE <<>>
        /\ pieces = <<<<"1","8","S">>, <<"I","T","S","2">>>> => Flagged(ret) = {"18S", "ITS2"}
        /\ pieces = <<<<"C","o","X","1">>, <<>>>> => Flagged(ret) = {"COI"}
        /\ pieces = <<<<"g","e","n","e">>, <<"p","a","r","t","i","a","l"," ","c","d","s">>>> => Flagged(ret) = {}

\* definition "18S" with feature text "ITS2" has set exactly those two flags
C7_Witness ==
    /\ pc = "done"
    /\ pieces = <<<<"1","8","S">>, <<"I","T","S","2">>>>
    /\ Flagged(ret) = {"18S", "ITS2"}

----------------------------------------------------------------------------
(* One call of _build_rows_from_parsed on a batch of parsed records *)

\* records per batch
MaxParsed == 2

Rec(acc, org, def, loc, ll, notes, quals) ==
    [accession |-> acc, organism |-> org, definition |-> def, locality |-> loc,
     lat_raw |-> ll, depth |-> <<"5"," ","m">>, date |-> <<"2","0","1","9","-","0","6","-","0","1">>,
     feature_notes |-> notes, qual_names |-> quals, doi |-> <<>>]

RecMonterey ==
    Rec(<<"M","K","1",".","1">>, <<"E","c","h","i","n","i","s","c","o","i","d","e","s"," ","s","i","g","i","s","m","u","n","d","i">>,
        <<"E","c","h","i","n","i","s","c","o","i","d","e","s"," ","s","i","g","i","s","m","u","n","d","i"," ","C","O","I"," ","g","e","n","e",","," ","p","a","r","t","i","a","l"," ","c","d","s">>,
        <<"U","S","A",":"," ","C","a","l","i","f","o","r","n","i","a",","," ","M","o","n","t","e","r","e","y"," ","B","a","y">>, <<"3","6",".","5"," ","N"," ","1","2","1",".","9"," ","W">>,
        <<<<"i","n","t","e","r","t","i","d","a","l"," ","b","a","r","n","a","c","l","e","s">>>>, {<<"o","r","g","a","n","i","s","m">>, <<"c","o","u","n","t","r","y">>, <<"l","a","t","_","l","o","n">>})
RecOkinawa ==
    Rec(<<"A","B","2",".","1">>, <<"B","a","t","i","l","l","i","p","e","s"," ","p","e","n","n","a","k","i">>,
        <<"B","a","t","i","l","l","i","p","e","s"," ","p","e","n","n","a","k","i"," ","1","8","S"," ","r","i","b","o","s","o","m","a","l"," ","R","N","A"," ","a","n","d"," ","I","T","S","1">>,
        <<"J","a","p","a","n",":"," ","O","k","i","n","a","w","a">>, <<"2","6",".","5"," ","N"," ","1","2","7",".","9"," ","E">>, <<>>, {<<"o","r","g","a","n","i","s","m">>, <<"c","o","u","n","t","r","y">>})
RecBoxOnly ==
    Rec(<<"L","C","3",".","1">>, <<"S","t","y","r","a","c","o","n","y","x"," ","s","p",".">>, <<"S","t","y","r","a","c","o","n","y","x"," ","s","p","."," ","2","8","S"," ","l","a","r","g","e"," ","s","u","b","u","n","i","t">>,
        <<>>, <<"3","6",".","5",","," ","-","1","2","1",".","9">>, <<>>, {<<"o","r","g","a","n","i","s","m">>, <<"l","a","t","_","l","o","n">>})
RecEnvSample ==
    Rec(<<"O","Q","4",".","1">>, <<"u","n","c","u","l","t","u","r","e","d"," ","e","u","k","a","r","y","o","t","e">>, <<"u","n","c","u","l","t","u","r","e","d"," ","e","u","k","a","r","y","o","t","e"," ","1","8","S"," ","r","i","b","o","s","o","m","a","l"," ","R","N","A"," ","g","e","n","e">>,
        <<>>, <<>>, <<>>, {<<"o","r","g","a","n","i","s","m">>, <<"e","n","v","i","r","o","n","m","e","n","t","a","l","_","s","a","m","p","l","e">>})
RecSeawater ==
    Rec(<<"O","Q","5",".","1">>, <<"T","a","r","d","i","g","r","a","d","a">>, <<"T","a","r","d","i","g","r","a","d","a"," ","C","O","I"," ","a","m","p","l","i","c","o","n">>,
        <<"C","a","n","a","d","a",":"," ","B","r","i","t","i","s","h"," ","C","o","l","u","m","b","i","a">>, <<>>, <<<<"s","e","a","w","a","t","e","r">>, <<"1","8","S"," ","r","R","N","A">>>>,
        {<<"o","r","g","a","n","i","s","m">>, <<"c","o","u","n","t","r","y">>, <<"i","s","o","l","a","t","i","o","n","_","s","o","u","r","c","e">>})
RecPacific ==
    Rec(<<"P","Q","6",".","1">>, <<"H","a","l","e","c","h","i","n","i","s","c","u","s"," ","s","p",".">>, <<"H","a","l","e","c","h","i","n","i","s","c","u","s"," ","s","p","."," ","I","T","S","2">>,
        <<"N","o","r","t","h"," ","P","a","c","i","f","i","c"," ","O","c","e","a","n">>, <<>>, <<<<"g","e","n","e">>>>, {})

ParsedPool == {RecMonterey, RecOkinawa, RecBoxOnly, RecEnvSample, RecSeawater, RecPacific}

RECURSIVE Batches(_, _)
Batches(pool, n) ==
    IF n = 0 THEN {<<>>}
    ELSE Batches(pool, n - 1)
           \cup {Append(b, r) : b \in {c \in Batches(pool, n - 1) : Len(c) = n - 1}, r \in pool}

InitBuild ==
    /\ REGION_FILTER_ENABLED \in BOOLEAN
    /\ USE_LATLON_BOX \in BOOLEAN
    /\ CLASSIFY_EDNA \in BOOLEAN
    /\ EDNA_REGION_RELAXED \in BOOLEAN
    /\ COMPUTE_POPULATION_REP = TRUE
    /\ pc = "loop"
    /\ pieces = <<>>
    /\ ret = <<>>
    /\ parsed \in Batches(ParsedPool, MaxParsed)
    /\ idx = 0
    /\ ind_rows = <<>>
    /\ edna_rows = <<>>
    /\ drops = 0
    /\ reason_counts = [r \in {"text", "latlon", "pacific"} |-> 0]
    /\ examples = <<>>
    /\ NoRun

NextBuild == build_rows_from_parsed_rec \/ build_rows_from_parsed_return

SpecBuild == InitBuild /\ [][NextBuild]_vars

----------------------------------------------------------------------------
(* The row of one record, in both scripts *)

RowAccessions == {<<"M","K","1",".","1">>, <<"A","B","2">>}
RowDefinitions ==
    {<<>>, <<"E","c","h","i","n","i","s","c","o","i","d","e","s"," ","s","i","g","i","s","m","u","n","d","i"," ","C","O","I"," ","g","e","n","e",","," ","p","a","r","t","i","a","l"," ","c","d","s">>,
     <<"B","a","t","i","l","l","i","p","e","s"," ","p","e","n","n","a","k","i"," ","1","8","S"," ","r","i","b","o","s","o","m","a","l"," ","R","N","A"," ","a","n","d"," ","I","T","S","1">>, <<"2","8","S"," ","l","a","r","g","e"," ","s","u","b","u","n","i","t",";"," ","I","T","S","2">>,
     <<"c","y","t","o","c","h","r","o","m","e"," ","o","x","i","d","a","s","e">>, <<"e","D","N","A"," ","m","e","t","a","b","a","r","c","o","d","i","n","g"," ","S","S","U"," ","a","n","d"," ","L","S","U">>}
RowFeatureNotes ==
    {<<>>, <<<<"I","T","S","2">>>>, <<<<"s","u","b","u","n","i","t"," ","I">>, <<"p","r","o","d","u","c","t">>>>, <<<<"i","t","s">>, <<"1">>>>}
RowQualifierNames == {{<<"o","r","g","a","n","i","s","m">>}, {<<"o","r","g","a","n","i","s","m">>, <<"e","n","v","i","r","o","n","m","e","n","t","a","l","_","s","a","m","p","l","e">>}}
RowRecords ==
    {Rec(a, <<"T","a","r","d","i","g","r","a","d","a">>, d, <<"J","a","p","a","n",":"," ","O","k","i","n","a","w","a">>, <<"2","6",".","5"," ","N"," ","1","2","7",".","9"," ","E">>, n, q) :
        a \in RowAccessions, d \in RowDefinitions, n \in RowFeatureNotes,
        q \in RowQualifierNames}

InitRow ==
    /\ REGION_FILTER_ENABLED = TRUE
    /\ USE_LATLON_BOX = TRUE
    /\ CLASSIFY_EDNA \in BOOLEAN
    /\ EDNA_REGION_RELAXED = TRUE
    /\ COMPUTE_POPULATION_REP = TRUE
    /\ pc = "call"
    /\ pieces \in RowRecords
    /\ ret = <<>>
    /\ NoBatch
    /\ NoRun

\* the row the eDNA script builds for the record
Call_build_row ==
    /\ pc = "call"
    /\ ret' = build_row(pieces,
                        detect_edna(pieces.locality, pieces.definition,
                                    feat_text(pieces), pieces.qual_names)[1],
                        CLASSIFY_EDNA)
    /\ pc' = "done"
    /\ UNCHANGED <<cfg, pieces, batch, run>>

\* the row the extraction script builds for the record
Call_insdseq_row ==
    /\ pc = "call"
    /\ ret' = insdseq_row(pieces)
    /\ pc' = "done"
    /\ UNCHANGED <<cfg, pieces, batch, run>>

NextRow == Call_build_row \/ Call_insdseq_row

SpecRow == InitRow /\ [][NextRow]_vars

----------------------------------------------------------------------------
(* Calls of add_population_rep on individual rows *)

\* rows per call
MaxRows == 3

PopRec(acc, org, ll) ==
    Rec(acc, org, <<"C","O","I"," ","g","e","n","e">>, <<"U","S","A",":"," ","C","a","l","i","f","o","r","n","i","a",","," ","M","o","n","t","e","r","e","y"," ","B","a","y">>, ll, <<>>, {<<"o","r","g","a","n","i","s","m">>})

\* rows as _build_rows_from_parsed builds them
PopRows ==
    {build_row(r, FALSE, FALSE) :
        r \in {PopRec(<<"M","K","1",".","1">>, <<"E","c","h","i","n","i","s","c","o","i","d","e","s"," ","s","i","g","i","s","m","u","n","d","i">>, <<"3","6",".","5"," ","N"," ","1","2","1",".","9"," ","W">>),
               PopRec(<<"M","K","1",".","2">>, <<"E","c","h","i","n","i","s","c","o","i","d","e","s"," ","s","i","g","i","s","m","u","n","d","i">>, <<"3","6",".","5","0","1"," ","N"," ","1","2","1",".","8","9","9"," ","W">>),
               PopRec(<<"M","K","1",".","3">>, <<"E","c","h","i","n","i","s","c","o","i","d","e","s"," ","s","i","g","i","s","m","u","n","d","i">>, <<"3","6",".","5","0","5"," ","N"," ","1","2","1",".","9"," ","W">>),
               PopRec(<<"M","K","1",".","4">>, <<"B","a","t","i","l","l","i","p","e","s"," ","p","e","n","n","a","k","i">>, <<"3","6",".","5"," ","N"," ","1","2","1",".","9"," ","W">>),
               PopRec(<<"M","K","1",".","5">>, <<"E","c","h","i","n","i","s","c","o","i","d","e","s"," ","s","i","g","i","s","m","u","n","d","i">>, <<>>),
               PopRec(<<"M","K","1",".","6">>, <<"E","c","h","i","n","i","s","c","o","i","d","e","s"," ","s","i","g","i","s","m","u","n","d","i">>, <<"+","3","6",".","5","0",","," ","-","1","2","1",".","9","0">>),
               PopRec(<<"M","K","1",".","7">>, <<"E","c","h","i","n","i","s","c","o","i","d","e","s"," ","s","i","g","i","s","m","u","n","d","i">>, <<"0",".","0","0","1"," ","S"," ","0"," ","E">>),
               PopRec(<<"M","K","1",".","8">>, <<"E","c","h","i","n","i","s","c","o","i","d","e","s"," ","s","i","g","i","s","m","u","n","d","i">>, <<"0",".","0","0","4",","," ","-","0",".","0">>)}}

InitPop ==
    /\ REGION_FILTER_ENABLED = TRUE
    /\ USE_LATLON_BOX = TRUE
    /\ CLASSIFY_EDNA = TRUE
    /\ EDNA_REGION_RELAXED = TRUE
    /\ COMPUTE_POPULATION_REP \in BOOLEAN
    /\ pc = "call"
    /\ pieces \in Batches(PopRows, MaxRows)
    /\ ret = <<>>
    /\ NoBatch
    /\ NoRun

Call_add_population_rep ==
    /\ pc = "call"
    /\ ret' = add_population_rep(pieces)
    /\ pc' = "done"
    /\ UNCHANGED <<cfg, pieces, batch, run>>

NextPop == Call_add_population_rep

SpecPop == InitPop /\ [][NextPop]_vars

----------------------------------------------------------------------------
(* C2, C3, C4: routing in _build_rows_from_parsed *)

\* the loop is about to go through the record parsed[idx + 1]
AtRecord == pc = "loop" /\ idx < Len(parsed)
\* the region decision of a record matched
RegionOk(rec) == region_match(rec.locality, rec.definition, feat_text(rec), rec.lat_raw)[1]
\* the record is classified as eDNA
IsEdna(rec) ==
    detect_edna(rec.locality, rec.definition, feat_text(rec), rec.qual_names)[1]
\* the record looks like eDNA, whatever CLASSIFY_EDNA says
LooksEdna(rec) ==
    \/ <<"e","n","v","i","r","o","n","m","e","n","t","a","l","_","s","a","m","p","l","e">> \in rec.qual_names
    \/ <<"m","e","t","a","g","e","n","o","m","i","c">> \in rec.qual_names
    \/ \E c \in {lower(rec.locality \o <<" ">> \o rec.definition \o <<" ">> \o feat_text(rec))} :
          \E i \in 1..Len(EDNA_KEYWORDS) : contains(c, EDNA_KEYWORDS[i])
\* the step appends one row for the record to the list and leaves the old rows in place
Appended(old, new, rec, type) ==
    /\ Len(new) = Len(old) + 1
    /\ SubSeq(new, 1, Len(old)) = old
    /\ new[Len(new)]["Species_ID"] = rec.organism
    /\ new[Len(new)]["Data_Type"] = type

\* C2: a record classified as individual is appended to the individuals list exactly
\* when region filtering is disabled or its region decision matched; otherwise it
\* gives no row and the drop counter of the batch goes up by exactly one.
C2_IndividualRouting ==
    [][AtRecord =>
         \E rec \in {parsed[idx + 1]} : \E ok \in {RegionOk(rec)} :
            ~IsEdna(rec) =>
               IF ~REGION_FILTER_ENABLED \/ ok
               THEN /\ Appended(ind_rows, ind_rows', rec, <<"I","n","d","i","v","i","d","u","a","l">>)
                    /\ edna_rows' = edna_rows
                    /\ drops' = drops
               ELSE /\ ind_rows' = ind_rows
                    /\ edna_rows' = edna_rows
                    /\ drops' = drops + 1]_vars

\* an individual outside the region was dropped and counted, one inside was kept
C2_Witness ==
    /\ pc = "loop" /\ idx = 2
    /\ REGION_FILTER_ENABLED
    /\ ~IsEdna(parsed[1]) /\ ~RegionOk(parsed[1])
    /\ ~IsEdna(parsed[2]) /\ RegionOk(parsed[2])
    /\ drops = 1 /\ Len(ind_rows) = 1 /\ edna_rows = <<>>

\* C3: with eDNA classification enabled, a record classified as eDNA is appended to the
\* eDNA list exactly when region filtering is disabled, or its region decision matched,
\* or the relaxed flag is set; otherwise it is dropped and counted.  With the relaxed
\* flag set, a record without a region match is kept if it is eDNA and dropped if it
\* is an individual.
C3_EdnaRouting ==
    [][(AtRecord /\ CLASSIFY_EDNA) =>
         \E rec \in {parsed[idx + 1]} :
         \E ok \in {RegionOk(rec)} : \E is_edna \in {IsEdna(rec)} :
            /\ is_edna =>
                  IF ~REGION_FILTER_ENABLED \/ ok \/ EDNA_REGION_RELAXED
                  THEN /\ Appended(edna_rows, edna_rows', rec, <<"e","D","N","A">>)
                       /\ ind_rows' = ind_rows
                       /\ drops' = drops
                  ELSE /\ edna_rows' = edna_rows
                       /\ ind_rows' = ind_rows
                       /\ drops' = drops + 1
            /\ (EDNA_REGION_RELAXED /\ REGION_FILTER_ENABLED /\ ~ok) =>
                  IF is_edna
                  THEN Len(edna_rows') = Len(edna_rows) + 1 /\ drops' = drops
                  ELSE edna_rows' = edna_rows /\ ind_rows' = ind_rows /\ drops' = drops + 1
      ]_vars

\* relaxed flag set: an eDNA record with no locality and no coordinates was kept, and
\* an individual with the same region decision was dropped
C3_Witness ==
    /\ pc = "loop" /\ idx = 2
    /\ REGION_FILTER_ENABLED /\ CLASSIFY_EDNA /\ EDNA_REGION_RELAXED
    /\ IsEdna(parsed[1]) /\ parsed[1].locality = <<>> /\ parsed[1].lat_raw = <<>>
    /\ ~RegionOk(parsed[1])
    /\ ~IsEdna(parsed[2]) /\ ~RegionOk(parsed[2])
    /\ Len(edna_rows) = 1 /\ edna_rows[1]["Data_Type"] = <<"e","D","N","A">>
    /\ ind_rows = <<>> /\ drops = 1

\* the records gone through so far that the individual region rule keeps
KeptAsIndividual == {k \in 1..idx : ~REGION_FILTER_ENABLED \/ RegionOk(parsed[k])}
\* the i-th record of those kept
KeptRecord(kept, i) == parsed[CHOOSE k \in kept : Cardinality({j \in kept : j <= k}) = i]

\* C4: with eDNA classification disabled, the eDNA list stays empty, every kept row
\* has Data_Type "Individual", and the records are kept or dropped by the individual
\* region rule alone, whatever qualifier names or eDNA keywords they carry.
C4_ClassificationDisabled ==
    ~CLASSIFY_EDNA =>
        /\ edna_rows = <<>>
        /\ (pc = "done" => ret[2] = <<>>)
        /\ \E kept \in {KeptAsIndividual} :
              /\ Len(ind_rows) = Cardinality(kept)
              /\ drops = idx - Cardinality(kept)
              /\ \A i \in 1..Len(ind_rows) :
                    /\ ind_rows[i]["Data_Type"] = <<"I","n","d","i","v","i","d","u","a","l">>
                    /\ ind_rows[i]["Species_ID"] = KeptRecord(kept, i).organism

\* classification disabled: a record with the environmental_sample qualifier was
\* dropped by the region rule and one with an eDNA keyword was kept as an individual
C4_Witness ==
    /\ ~CLASSIFY_EDNA /\ REGION_FILTER_ENABLED
    /\ pc = "done" /\ Len(parsed) = 2
    /\ LooksEdna(parsed[1]) /\ ~RegionOk(parsed[1])
    /\ LooksEdna(parsed[2]) /\ RegionOk(parsed[2])
    /\ ret[2] = <<>> /\ Len(ret[1]) = 1 /\ drops = 1
    /\ ret[1][1]["Data_Type"] = <<"I","n","d","i","v","i","d","u","a","l">>

----------------------------------------------------------------------------
(* C6: marker columns of a row *)

\* pick_marker flags the marker for the record
Detected(rec, m) == pick_marker(rec.definition, feat_text(rec))[m] = <<"X">>

\* C6: in the row either script builds from a record, each marker column holds the
\* record's accession if pick_marker detected the marker and the empty string if not.
C6_MarkerColumns ==
    pc = "done" =>
        \A m \in {"COI", "18S", "28S", "ITS1", "ITS2"} :
            ret[m] = IF Detected(pieces, m) THEN pieces.accession ELSE <<>>

\* a row with the accession in two marker columns at once and an empty third
C6_Witness ==
    /\ pc = "done"
    /\ pieces.accession # <<>>
    /\ ret["18S"] = pieces.accession
    /\ ret["ITS1"] = pieces.accession
    /\ ret["COI"] = <<>>

----------------------------------------------------------------------------
(* C8, C9: add_population_rep *)

\* both coordinates of the row parse as numbers
Parses(r) == float(r["Latitude"]).ok /\ float(r["Longitude"]).ok
\* a coordinate rounded to GROUP_ROUND decimals
Rounded(s) == num(round(float(s), GROUP_ROUND))
\* two rows share their grouping key
SameGroup(a, b) ==
    /\ a["Species_ID"] = b["Species_ID"]
    /\ a["Locality"] = b["Locality"]
    /\ a["Collection_Date"] = b["Collection_Date"]
    /\ Parses(a) = Parses(b)
    /\ IF Parses(a) /\ Parses(b)
       THEN /\ Rounded(a["Latitude"]) = Rounded(b["Latitude"])
            /\ Rounded(a["Longitude"]) = Rounded(b["Longitude"])
       ELSE /\ a["Latitude"] = b["Latitude"]
            /\ a["Longitude"] = b["Longitude"]
\* the number of rows of the input in the group of row i
GroupSize(i) == Cardinality({j \in 1..Len(pieces) : SameGroup(pieces[i], pieces[j])})

\* C8: with aggregation enabled, every row's Population_Representation is the decimal
\* string of the number of input rows sharing its key when that number exceeds 1, and
\* is empty when the row is alone in its group.
C8_PopulationCounts ==
    (pc = "done" /\ COMPUTE_POPULATION_REP) =>
        \A i \in 1..Len(pieces) :
            ret[i]["Population_Representation"] =
                IF GroupSize(i) > 1 THEN StrOfNat(GroupSize(i)) ELSE <<>>

\* three rows written with different coordinates that round to the same key get "3"
C8_Witness ==
    /\ pc = "done" /\ COMPUTE_POPULATION_REP
    /\ Len(ret) = 3
    /\ pieces[1]["Latitude"] # pieces[2]["Latitude"]
    /\ pieces[2]["Latitude"] # pieces[3]["Latitude"]
    /\ pieces[1]["Latitude"] # pieces[3]["Latitude"]
    /\ \A i \in 1..3 : ret[i]["Population_Representation"] = <<"3">>

\* C9: add_population_rep returns as many rows as it was given, in the same order,
\* with no field other than Population_Representation changed; with aggregation
\* disabled or no rows it returns its input unchanged.
C9_PureAnnotation ==
    pc = "done" =>
        /\ Len(ret) = Len(pieces)
        /\ \A i \in 1..Len(pieces) :
              /\ DOMAIN ret[i] = {FIELDS[k] : k \in 1..Len(FIELDS)}
              /\ DOMAIN pieces[i] = DOMAIN ret[i]
              /\ \A f \in DOMAIN pieces[i] \ {"Population_Representation"} :
                    ret[i][f] = pieces[i][f]
        /\ (~COMPUTE_POPULATION_REP \/ pieces = <<>>) => ret = pieces

\* two rows of one group around a row of another: all three returned in place, the
\* pair annotated "2"
C9_Witness ==
    /\ pc = "done" /\ COMPUTE_POPULATION_REP
    /\ Len(pieces) = 3 /\ Len(ret) = 3
    /\ ret[1]["Population_Representation"] = <<"2">>
    /\ ret[2]["Population_Representation"] = <<>>
    /\ ret[3]["Population_Representation"] = <<"2">>
    /\ ret[2]["Species_ID"] # ret[1]["Species_ID"]

----------------------------------------------------------------------------
(* C11: the lat/lon box of region_match *)

\* both coordinates parsed and inside the inclusive box
InsideBox(ll) ==
    /\ ll[1] # <<>>
    /\ ll[2] # <<>>
    /\ \E lat_f \in {float(ll[1])} : \E lon_f \in {float(ll[2])} :
          /\ lat_f.ok /\ lon_f.ok
          /\ LAT_MIN <= num(lat_f) /\ num(lat_f) <= LAT_MAX
          /\ LON_MIN <= num(lon_f) /\ num(lon_f) <= LON_MAX
NoTextHit(p) == ~PacificHit(p) /\ ~TokenHit(p)

\* C11: with region filtering on and no text token present, region_match returns
\* (match, "latlon") exactly when the box check is enabled, the raw lat/lon
\* parses and LAT_MIN <= lat <= LAT_MAX and LON_MIN <= lon <= LON_MAX, and
\* (no match, "none") otherwise; a point on a corner of the box matches, one a
\* thousandth of a degree outside does not, lat 0 lon 0 does not, and with the
\* box check disabled no coordinates match.
C11_LatLonBox ==
    pc = "done" /\ REGION_FILTER_ENABLED /\ NoTextHit(pieces) =>
        /\ ret = IF USE_LATLON_BOX /\ InsideBox(parse_lat_lon(pieces[4]))
                 THEN <<TRUE, "latlon">> ELSE <<FALSE, "none">>
        /\ USE_LATLON_BOX /\ pieces[4] \in {<<"2","2"," ","N"," ","1","0","0"," ","W">>, <<"7","2"," ","N"," ","1","8","0"," ","W">>}
              => ret = <<TRUE, "latlon">>
        /\ pieces[4] \in {<<"0",","," ","0">>, <<"7","2",".","0","0","1"," ","N"," ","1","2","0"," ","W">>, <<"2","1",".","9","9","9"," ","N"," ","1","2","0"," ","W">>,
                          <<"3","6",".","5"," ","N"," ","9","9",".","9","9","9"," ","W">>}
              => ret = <<FALSE, "none">>
        /\ ~USE_LATLON_BOX => ret = <<FALSE, "none">>

\* a record without any region text at the corner lat 22, lon -100 has matched
C11_Witness ==
    /\ pc = "done"
    /\ REGION_FILTER_ENABLED
    /\ USE_LATLON_BOX
    /\ pieces = <<<<"A","t","l","a","n","t","i","c"," ","O","c","e","a","n">>, <<"C","O","I"," ","g","e","n","e",","," ","p","a","r","t","i","a","l"," ","c","d","s">>, <<>>, <<"2","2"," ","N"," ","1","0","0"," ","W">>>>
    /\ ret = <<TRUE, "latlon">>

----------------------------------------------------------------------------
(* XML elements: xml.etree.ElementTree find, findall, findtext *)

\* an element: its tag, its text ("" when it has none) and its children in document order
Elem(tag, text, kids) == [tag |-> tag, text |-> text, kids |-> kids]
Leaf(tag, text) == Elem(tag, text, <<>>)

\* what find returns when no element matches, as a list of at most one element
NoElement == <<>>

\* the children of node that carry the tag
children(node, tag) == SelectSeq(node.kids, LAMBDA k : k.tag = tag)

RECURSIVE flatten(_)
flatten(lists) == IF lists = <<>> THEN <<>> ELSE Head(lists) \o flatten(Tail(lists))

\* node.findall("./t1/t2/..."): the matches in document order
RECURSIVE findall(_, _)
findall(node, path) ==
    IF Len(path) = 1 THEN children(node, path[1])
    ELSE Bind(children(node, path[1]), LAMBDA first :
           flatten([i \in 1..Len(first) |-> findall(first[i], Tail(path))]))

\* node.find(path): the first match
find(node, path) ==
    Bind(findall(node, path), LAMBDA all :
      IF all = <<>> THEN NoElement ELSE <<all[1]>>)

\* node.findtext(path): the text of the first match, None without a match
findtext(node, path) ==
    Bind(findall(node, path), LAMBDA all :
      IF all = <<>> THEN None ELSE all[1].text)

----------------------------------------------------------------------------
(* Citation: extract_doi_any *)

\* the characters that end a DOI: \s, the double quote, < and >
DoiStop == Whitespace \cup {"\"", "<", ">"}

\* the first index from i on whose character is in S (Len(s)+1 if none)
skip_to(s, i, S) ==
    CHOOSE j \in i..(Len(s) + 1) :
        /\ \A k \in i..(j - 1) : s[k] \notin S
        /\ (j = Len(s) + 1 \/ s[j] \in S)

\* where a match of DOI_RE that starts at p ends (exclusive), 0 without a match at p
doi_end(s, p) ==
    IF ~(p + 2 <= Len(s) /\ s[p] = "1" /\ s[p + 1] = "0" /\ s[p + 2] = ".") THEN 0
    ELSE Bind(skip(s, p + 3, Digits), LAMBDA d :
           IF d - (p + 3) < 4 \/ d - (p + 3) > 9 \/ d > Len(s) THEN 0
           ELSE IF s[d] # "/" THEN 0
           ELSE Bind(skip_to(s, d + 1, DoiStop), LAMBDA e :
                  IF e = d + 1 THEN 0 ELSE e))

\* DOI_RE.search(s): group 1 of the leftmost match, None without a match
DOI_RE_search(s) ==
    Bind({p \in 1..Len(s) : doi_end(s, p) # 0}, LAMBDA hits :
      IF hits = {} THEN None
      ELSE Bind(CHOOSE p \in hits : \A q \in hits : p <= q, LAMBDA p :
             SubSeq(s, p, doi_end(s, p) - 1)))

\* the loop over the cross-references xs: the first one whose database name is
\* "doi" in any case and whose id is not empty gives <<TRUE, id.strip()>>
RECURSIVE xref_doi(_, _, _)
xref_doi(xs, dbname, id) ==
    IF xs = <<>> THEN <<FALSE, <<>>>>
    ELSE Bind(or_empty(findtext(Head(xs), <<id>>)), LAMBDA val :
           IF lower(or_empty(findtext(Head(xs), <<dbname>>))) = <<"d","o","i">> /\ val # <<>>
           THEN <<TRUE, strip(val)>>
           ELSE xref_doi(Tail(xs), dbname, id))

\* the cross-reference lookup under one schema's field names
schema_doi(ref_node, xref, item, dbname, id) ==
    Bind(find(ref_node, <<xref>>), LAMBDA xp :
      IF xp = NoElement THEN <<FALSE, <<>>>>
      ELSE xref_doi(findall(xp[1], <<item>>), dbname, id))

DOI_TEXT_TAGS ==
    <<"INSDReference_title", "INSDReference_journal", "INSDReference_remark",
      "GBReference_title", "GBReference_journal", "GBReference_remark">>

\* parts: the non-empty texts of the title, journal and remark fields
doi_parts(ref_node) ==
    SelectSeq([i \in 1..Len(DOI_TEXT_TAGS) |->
                  or_empty(findtext(ref_node, <<DOI_TEXT_TAGS[i]>>))],
              LAMBDA t : t # <<>>)

\* the free-text fallback alone
extract_doi_text_only(ref_node) ==
    Bind(DOI_RE_search(join(doi_parts(ref_node))), LAMBDA m :
      IF m = None THEN <<>> ELSE m)

extract_doi_any(ref_node) ==
    Bind(schema_doi(ref_node, "INSDReference_xref", "INSDXref",
                    "INSDXref_dbname", "INSDXref_id"), LAMBDA a :
      IF a[1] THEN a[2]
      ELSE Bind(schema_doi(ref_node, "GBReference_xref", "GBXref",
                           "GBXref_dbname", "GBXref_id"), LAMBDA b :
             IF b[1] THEN b[2]
             ELSE Bind(DOI_RE_search(join(doi_parts(ref_node))), LAMBDA m :
                    IF m = None THEN <<>> ELSE m)))

----------------------------------------------------------------------------
(* Calls of extract_doi_any on reference nodes *)

\* cross-references a reference node of the model carries in one container
MaxXrefs == 2

\* the sequences of at most n members of S
RECURSIVE Lists(_, _)
Lists(S, n) ==
    IF n = 0 THEN {<<>>}
    ELSE Lists(S, n - 1) \cup {Append(l, x) : l \in Lists(S, n - 1), x \in S}

INSDXref(dbname, id) ==
    Elem("INSDXref", <<>>, <<Leaf("INSDXref_dbname", dbname), Leaf("INSDXref_id", id)>>)
GBXref(dbname, id) ==
    Elem("GBXref", <<>>, <<Leaf("GBXref_dbname", dbname), Leaf("GBXref_id", id)>>)

DoiXrefs ==
    {INSDXref(<<"d","o","i">>, <<"1","0",".","1","0","0","0","/","i","n","s","d",".","1">>),
     INSDXref(<<"D","O","I">>, <<" ","1","0",".","1","0","0","0","/","p","a","d",".","2"," ">>),
     INSDXref(<<"p","u","b","m","e","d">>, <<"1","2","3","4","5">>),
     INSDXref(<<"d","o","i">>, <<>>),
     INSDXref(<<"D","o","i">>, <<" ">>),
     Elem("INSDXref", <<>>, <<Leaf("INSDXref_id", <<"1","0",".","1","0","0","0","/","n","o","n","a","m","e",".","3">>)>>)}
DoiInsdContainers ==
    {<<>>,
     <<Elem("INSDReference_xref", <<>>, <<>>),
       Elem("INSDReference_xref", <<>>, <<INSDXref(<<"d","o","i">>, <<"1","0",".","1","0","0","0","/","s","e","c","o","n","d",".","6">>)>>)>>}
    \cup {<<Elem("INSDReference_xref", <<>>, xs)>> : xs \in Lists(DoiXrefs, MaxXrefs)}
DoiGbContainers ==
    {<<>>,
     <<Elem("GBReference_xref", <<>>, <<GBXref(<<"d","o","i">>, <<"1","0",".","2","0","0","0","/","g","b",".","4">>)>>)>>,
     <<Elem("GBReference_xref", <<>>, <<GBXref(<<"p","u","b","m","e","d">>, <<"7","7","7">>)>>)>>}
DoiTexts ==
    {<<>>,
     <<Leaf("INSDReference_journal", <<"J"," ","E","x","p"," ","1","0",".","1","2","3","4","/","a","b","c","d",".","5">>)>>,
     <<Leaf("GBReference_remark", <<"D","O","I",":","1","0",".","7","7","7","/","s","h","o","r","t"," ","1","0",".","9","8","7","6","5","/","G","b",".","R">>),
       Leaf("INSDReference_title", <<"T","a","r","d","i","g","r","a","d","e","s"," ","<","1","0",".","5","5","5","5","/","T",".","x",">"," ","a","n","d"," ","1","0",".","1","2","/","n","o">>)>>,
     <<Leaf("GBReference_journal", <<"U","n","p","u","b","l","i","s","h","e","d">>), Leaf("INSDReference_remark", <<>>)>>,
     <<Leaf("INSDReference_journal", <<"1","0",".","1","2","3","4","5","6","7","8","9","0","/","l","o","n","g"," ","1","0",".","1","2","3","4","/">>),
       Leaf("GBReference_title", <<"s","e","e"," ","1","0",".","4","3","2","1","/","x">>)>>}
DoiRefs ==
    {Elem("INSDReference", <<>>, t \o i \o g) :
        i \in DoiInsdContainers, g \in DoiGbContainers, t \in DoiTexts}

InitDoi ==
    /\ DefaultCfg
    /\ pc = "call"
    /\ pieces \in DoiRefs
    /\ ret = <<>>
    /\ NoBatch
    /\ NoRun

Call_extract_doi_any ==
    /\ pc = "call"
    /\ ret' = extract_doi_any(pieces)
    /\ pc' = "done"
    /\ UNCHANGED <<cfg, pieces, batch, run>>

NextDoi == Call_extract_doi_any

SpecDoi == InitDoi /\ [][NextDoi]_vars

----------------------------------------------------------------------------
(* C12: extract_doi_any *)

\* the non-empty ids of the cross-references named "doi" in any case, taken from
\* the first cross-reference container of the reference node
StructuredIds(ref, xref, item, dbname, id) ==
    IF children(ref, xref) = <<>> THEN <<>>
    ELSE Bind(SelectSeq(children(children(ref, xref)[1], item), LAMBDA x :
                 /\ findtext(x, <<dbname>>) # None
                 /\ lower(findtext(x, <<dbname>>)) = <<"d","o","i">>
                 /\ findtext(x, <<id>>) \notin {None, <<>>}), LAMBDA named :
           <<>> \o [i \in 1..Len(named) |-> findtext(named[i], <<id>>)])
InsdIds(ref) ==
    StructuredIds(ref, "INSDReference_xref", "INSDXref", "INSDXref_dbname", "INSDXref_id")
GbIds(ref) ==
    StructuredIds(ref, "GBReference_xref", "GBXref", "GBXref_dbname", "GBXref_id")
\* the title, journal and remark texts of both schemas, joined by blanks
FreeText(ref) ==
    join(SelectSeq(<<or_empty(findtext(ref, <<"INSDReference_title">>)),
                     or_empty(findtext(ref, <<"INSDReference_journal">>)),
                     or_empty(findtext(ref, <<"INSDReference_remark">>)),
                     or_empty(findtext(ref, <<"GBReference_title">>)),
                     or_empty(findtext(ref, <<"GBReference_journal">>)),
                     or_empty(findtext(ref, <<"GBReference_remark">>))>>,
                   LAMBDA t : t # <<>>))
\* the first DOI-like string of the free text, "" without one
FreeTextDoi(ref) ==
    Bind(DOI_RE_search(FreeText(ref)), LAMBDA m : IF m = None THEN <<>> ELSE m)

\* C12 as stated: the structured value is returned exactly as it stands in the
\* cross-reference, INSD names before GB names, and the free text is searched
\* only when there is no structured value.
C12_AsStated ==
    pc = "done" =>
        \E insd \in {InsdIds(pieces)} : \E gb \in {GbIds(pieces)} :
            ret = IF insd # <<>> THEN insd[1]
                  ELSE IF gb # <<>> THEN gb[1]
                  ELSE FreeTextDoi(pieces)

\* C12 (amended): extract_doi_any follows a fixed lookup order: the first
\* cross-reference under the INSD field names whose database name is "doi" in
\* any case and whose id is not empty, else the first such one under the GB
\* field names, gives the result, which is that id with leading and trailing
\* whitespace removed (the empty string for an id of whitespace only), whatever
\* DOI-like strings the title, journal and remark texts hold; only without such
\* a cross-reference is the free text searched, and the empty string is returned
\* if nothing is found.
C12_DoiLookupOrder ==
    pc = "done" =>
        \E insd \in {InsdIds(pieces)} : \E gb \in {GbIds(pieces)} :
            ret = IF insd # <<>> THEN strip(insd[1])
                  ELSE IF gb # <<>> THEN strip(gb[1])
                  ELSE FreeTextDoi(pieces)

\* the structured DOI has been returned although the journal holds another one
C12_Witness ==
    /\ pc = "done"
    /\ InsdIds(pieces) = <<<<"1","0",".","1","0","0","0","/","i","n","s","d",".","1">>>>
    /\ FreeTextDoi(pieces) = <<"1","0",".","1","2","3","4","/","a","b","c","d",".","5">>
    /\ ret = <<"1","0",".","1","0","0","0","/","i","n","s","d",".","1">>

----------------------------------------------------------------------------
(* Record normalizers: _parse_insdseq_nodes and _parse_gbseq_nodes *)

LAT_LON_NAMES == {<<"l","a","t","_","l","o","n">>, <<"l","a","t","-","l","o","n">>, <<"l","a","t","-","l","o","n","g">>, <<"l","a","t","l","o","n","g">>}

\* the body of the qualifier loop, every qualifier read whatever the feature's key
qualifier_any_feature(rec, key, name, val) ==
    Bind(IF key = <<"s","o","u","r","c","e">> THEN [rec EXCEPT !.qual_names = @ \cup {name}] ELSE rec,
      LAMBDA r :
        IF key = <<"s","o","u","r","c","e">> /\ name = <<"c","o","u","n","t","r","y">> THEN [r EXCEPT !.locality = val]
        ELSE IF key = <<"s","o","u","r","c","e">> /\ name \in LAT_LON_NAMES THEN [r EXCEPT !.lat_raw = val]
        ELSE IF key = <<"s","o","u","r","c","e">> /\ name = <<"d","e","p","t","h">> THEN [r EXCEPT !.depth = val]
        ELSE IF key = <<"s","o","u","r","c","e">> /\ name = <<"c","o","l","l","e","c","t","i","o","n","_","d","a","t","e">> THEN [r EXCEPT !.date = val]
        ELSE IF name \in {<<"i","s","o","l","a","t","i","o","n","_","s","o","u","r","c","e">>, <<"n","o","t","e">>, <<"g","e","n","e">>, <<"p","r","o","d","u","c","t">>} /\ val # <<>>
             THEN [r EXCEPT !.feature_notes = Append(@, val)]
        ELSE r)

\* the body of the qualifier loop: rec after the qualifier (name, val) of a feature with the key
qualifier(rec, key, name, val) ==
    IF key = <<"s","o","u","r","c","e">>
    THEN Bind([rec EXCEPT !.qual_names = @ \cup {name}], LAMBDA r :
           IF name = <<"c","o","u","n","t","r","y">> THEN [r EXCEPT !.locality = val]
           ELSE IF name \in LAT_LON_NAMES THEN [r EXCEPT !.lat_raw = val]
           ELSE IF name = <<"d","e","p","t","h">> THEN [r EXCEPT !.depth = val]
           ELSE IF name = <<"c","o","l","l","e","c","t","i","o","n","_","d","a","t","e">> THEN [r EXCEPT !.date = val]
           ELSE IF name \in {<<"i","s","o","l","a","t","i","o","n","_","s","o","u","r","c","e">>, <<"n","o","t","e">>} /\ val # <<>>
                THEN [r EXCEPT !.feature_notes = Append(@, val)]
           ELSE r)
    ELSE IF name \in {<<"g","e","n","e">>, <<"p","r","o","d","u","c","t">>} /\ val # <<>>
         THEN [rec EXCEPT !.feature_notes = Append(@, val)]
    ELSE rec

\* the qualifier loop over qs, the <<key, name, val>> of the qualifiers in document order
RECURSIVE qualifiers(_, _)
qualifiers(rec, qs) ==
    IF qs = <<>> THEN rec
    ELSE Bind(qualifier(rec, Head(qs)[1], Head(qs)[2], Head(qs)[3]), LAMBDA r :
           qualifiers(r, Tail(qs)))

\* rec = {...} before the feature loop
new_rec(accession, organism, definition) ==
    [accession |-> accession, organism |-> organism, definition |-> definition,
     locality |-> <<>>, lat_raw |-> <<>>, depth |-> <<>>, date |-> <<>>,
     feature_notes |-> <<>>, qual_names |-> {}, doi |-> <<>>]

\* a or b or ""
first_text(a, b) == IF or_empty(a) # <<>> THEN a ELSE or_empty(b)

\* the <<key, name, val>> of every qualifier of every feature of an INSDSeq node
insd_qualifiers(insd) ==
    Bind(findall(insd, <<"INSDSeq_feature-table", "INSDFeature">>), LAMBDA feats :
      flatten([f \in 1..Len(feats) |->
        Bind(findall(feats[f], <<"INSDFeature_quals", "INSDQualifier">>), LAMBDA qs :
          <<>> \o [q \in 1..Len(qs) |->
            <<or_empty(findtext(feats[f], <<"INSDFeature_key">>)),
              lower(or_empty(findtext(qs[q], <<"INSDQualifier_name">>))),
              or_empty(findtext(qs[q], <<"INSDQualifier_value">>))>>])]))

\* the <<key, name, val>> of every qualifier of every feature of a GBSeq node
gb_qualifiers(gb) ==
    Bind(findall(gb, <<"GBSeq_feature-table", "GBFeature">>), LAMBDA feats :
      flatten([f \in 1..Len(feats) |->
        Bind(findall(feats[f], <<"GBFeature_quals", "GBQualifier">>), LAMBDA qs :
          <<>> \o [q \in 1..Len(qs) |->
            <<or_empty(findtext(feats[f], <<"GBFeature_key">>)),
              lower(or_empty(findtext(qs[q], <<"GBQualifier_name">>))),
              or_empty(findtext(qs[q], <<"GBQualifier_value">>))>>])]))

\* rec["doi"] from the references refs
doi_of_last(refs) == IF refs # <<>> THEN extract_doi_any(refs[Len(refs)]) ELSE <<>>
doi_of(refs) == IF refs # <<>> THEN extract_doi_any(refs[1]) ELSE <<>>

\* one iteration of: for insd in nodes
parse_insdseq_node(insd) ==
    Bind(qualifiers(new_rec(first_text(findtext(insd, <<"INSDSeq_accession-version">>),
                                       findtext(insd, <<"INSDSeq_primary-accession">>)),
                            or_empty(findtext(insd, <<"INSDSeq_organism">>)),
                            or_empty(findtext(insd, <<"INSDSeq_definition">>))),
                    insd_qualifiers(insd)), LAMBDA rec :
      [rec EXCEPT !.doi = doi_of(findall(insd, <<"INSDSeq_references", "INSDReference">>))])

\* the GBSeq normalizer that prefers the primary accession
parse_gbseq_node_primary(gb) ==
    Bind(qualifiers(new_rec(first_text(findtext(gb, <<"GBSeq_primary-accession">>),
                                       findtext(gb, <<"GBSeq_accession-version">>)),
                            or_empty(findtext(gb, <<"GBSeq_organism">>)),
                            or_empty(findtext(gb, <<"GBSeq_definition">>))),
                    gb_qualifiers(gb)), LAMBDA rec :
      [rec EXCEPT !.doi = doi_of(findall(gb, <<"GBSeq_references", "GBReference">>))])

\* one iteration of: for gb in nodes
parse_gbseq_node(gb) ==
    Bind(qualifiers(new_rec(first_text(findtext(gb, <<"GBSeq_accession-version">>),
                                       findtext(gb, <<"GBSeq_primary-accession">>)),
                            or_empty(findtext(gb, <<"GBSeq_organism">>)),
                            or_empty(findtext(gb, <<"GBSeq_definition">>))),
                    gb_qualifiers(gb)), LAMBDA rec :
      [rec EXCEPT !.doi = doi_of(findall(gb, <<"GBSeq_references", "GBReference">>))])

parse_insdseq_nodes(nodes) == <<>> \o [i \in 1..Len(nodes) |-> parse_insdseq_node(nodes[i])]
parse_gbseq_nodes(nodes) == <<>> \o [i \in 1..Len(nodes) |-> parse_gbseq_node(nodes[i])]

----------------------------------------------------------------------------
(* Record trees and calls of the two normalizers *)

INSDQualifier(name, val) ==
    Elem("INSDQualifier", <<>>,
         <<Leaf("INSDQualifier_name", name), Leaf("INSDQualifier_value", val)>>)
\* a qualifier without a value element, as /environmental_sample is sent
INSDFlag(name) == Elem("INSDQualifier", <<>>, <<Leaf("INSDQualifier_name", name)>>)
INSDFeature(key, quals) ==
    Elem("INSDFeature", <<>>,
         <<Leaf("INSDFeature_key", key), Elem("INSDFeature_quals", <<>>, quals)>>)
INSDReference(kids) == Elem("INSDReference", <<>>, kids)
INSDDoiXref(id) ==
    Elem("INSDReference_xref", <<>>, <<INSDXref(<<"d","o","i">>, id)>>)

\* the GB field name of every INSD field name the normalizers read
GBNames ==
       "INSDSet" :> "GBSet"
    @@ "INSDSeq" :> "GBSeq"
    @@ "INSDSeq_accession-version" :> "GBSeq_accession-version"
    @@ "INSDSeq_primary-accession" :> "GBSeq_primary-accession"
    @@ "INSDSeq_organism" :> "GBSeq_organism"
    @@ "INSDSeq_definition" :> "GBSeq_definition"
    @@ "INSDSeq_feature-table" :> "GBSeq_feature-table"
    @@ "INSDFeature" :> "GBFeature"
    @@ "INSDFeature_key" :> "GBFeature_key"
    @@ "INSDFeature_quals" :> "GBFeature_quals"
    @@ "INSDQualifier" :> "GBQualifier"
    @@ "INSDQualifier_name" :> "GBQualifier_name"
    @@ "INSDQualifier_value" :> "GBQualifier_value"
    @@ "INSDSeq_references" :> "GBSeq_references"
    @@ "INSDReference" :> "GBReference"
    @@ "INSDReference_xref" :> "GBReference_xref"
    @@ "INSDXref" :> "GBXref"
    @@ "INSDXref_dbname" :> "GBXref_dbname"
    @@ "INSDXref_id" :> "GBXref_id"
    @@ "INSDReference_title" :> "GBReference_title"
    @@ "INSDReference_journal" :> "GBReference_journal"
    @@ "INSDReference_remark" :> "GBReference_remark"

\* the tree with every INSD field name replaced by its GB field name
RECURSIVE AsGB(_)
AsGB(node) ==
    Elem(IF node.tag \in DOMAIN GBNames THEN GBNames[node.tag] ELSE node.tag, node.text,
         <<>> \o [i \in 1..Len(node.kids) |-> AsGB(node.kids[i])])

NormAccessionList ==
    <<<<>>,
     <<Leaf("INSDSeq_primary-accession", <<"M","K","1">>)>>,
     <<Leaf("INSDSeq_primary-accession", <<"M","K","1">>), Leaf("INSDSeq_accession-version", <<"M","K","1",".","2">>)>>,
     <<Leaf("INSDSeq_accession-version", <<>>), Leaf("INSDSeq_primary-accession", <<"A","B","2">>)>>>>
NormAccessions == {NormAccessionList[i] : i \in 1..Len(NormAccessionList)}
NormTitleList ==
    <<<<Leaf("INSDSeq_definition", <<"E","c","h","i","n","i","s","c","o","i","d","e","s"," ","s","i","g","i","s","m","u","n","d","i"," ","i","s","o","l","a","t","e"," ","7">>)>>,
     <<Leaf("INSDSeq_organism", <<"B","a","t","i","l","l","i","p","e","s"," ","p","e","n","n","a","k","i">>),
       Leaf("INSDSeq_definition", <<"B","a","t","i","l","l","i","p","e","s"," ","p","e","n","n","a","k","i"," ","1","8","S"," ","r","i","b","o","s","o","m","a","l"," ","R","N","A">>),
       Leaf("INSDSeq_organism", <<"s","e","c","o","n","d"," ","o","r","g","a","n","i","s","m">>)>>>>
NormTitles == {NormTitleList[i] : i \in 1..Len(NormTitleList)}
NormFeatureTableList ==
    <<<<>>,
     <<Elem("INSDSeq_feature-table", <<>>,
         <<INSDFeature(<<"s","o","u","r","c","e">>,
              <<INSDQualifier(<<"c","o","u","n","t","r","y">>, <<"U","S","A",":"," ","C","a","l","i","f","o","r","n","i","a">>),
                INSDQualifier(<<"l","a","t","_","l","o","n">>, <<"3","6",".","5"," ","N"," ","1","2","1",".","9"," ","W">>),
                INSDQualifier(<<"i","s","o","l","a","t","i","o","n","_","s","o","u","r","c","e">>, <<"s","e","a","w","a","t","e","r">>),
                INSDQualifier(<<"n","o","t","e">>, <<"k","e","l","p"," ","h","o","l","d","f","a","s","t">>)>>),
           INSDFeature(<<"g","e","n","e">>, <<INSDQualifier(<<"g","e","n","e">>, <<"C","O","I">>)>>),
           INSDFeature(<<"C","D","S">>,
              <<INSDQualifier(<<"P","r","o","d","u","c","t">>, <<"c","y","t","o","c","h","r","o","m","e"," ","o","x","i","d","a","s","e"," ","s","u","b","u","n","i","t"," ","I">>)>>)>>)>>,
     <<Elem("INSDSeq_feature-table", <<>>,
         <<INSDFeature(<<"C","D","S">>,
              <<INSDQualifier(<<"n","o","t","e">>, <<"I","T","S","2">>),
                INSDQualifier(<<"i","s","o","l","a","t","i","o","n","_","s","o","u","r","c","e">>, <<"s","e","d","i","m","e","n","t">>),
                INSDQualifier(<<"c","o","u","n","t","r","y">>, <<"C","h","i","l","e">>)>>),
           INSDFeature(<<"s","o","u","r","c","e">>,
              <<INSDQualifier(<<"g","e","n","e">>, <<"1","8","S">>),
                INSDQualifier(<<"p","r","o","d","u","c","t">>, <<"s","m","a","l","l"," ","s","u","b","u","n","i","t">>),
                INSDQualifier(<<"C","o","u","n","t","r","y">>, <<"J","a","p","a","n",":"," ","O","k","i","n","a","w","a">>),
                INSDQualifier(<<"c","o","u","n","t","r","y">>, <<"M","e","x","i","c","o">>)>>)>>)>>,
     <<Elem("INSDSeq_feature-table", <<>>,
         <<INSDFeature(<<"s","o","u","r","c","e">>,
              <<INSDFlag(<<"e","n","v","i","r","o","n","m","e","n","t","a","l","_","s","a","m","p","l","e">>),
                INSDQualifier(<<"n","o","t","e">>, <<>>),
                INSDQualifier(<<"d","e","p","t","h">>, <<"5"," ","m">>),
                INSDQualifier(<<"c","o","l","l","e","c","t","i","o","n","_","d","a","t","e">>, <<"2","0","1","9","-","0","6","-","0","1">>),
                INSDQualifier(<<"l","a","t","-","l","o","n","g">>, <<"2","2"," ","N"," ","1","0","0"," ","W">>)>>),
           Elem("INSDFeature", <<>>,
              <<Elem("INSDFeature_quals", <<>>, <<INSDQualifier(<<"g","e","n","e">>, <<"2","8","S">>)>>)>>),
           INSDFeature(<<"S","o","u","r","c","e">>, <<INSDQualifier(<<"n","o","t","e">>, <<"e","D","N","A">>)>>)>>)>>>>
NormFeatureTables == {NormFeatureTableList[i] : i \in 1..Len(NormFeatureTableList)}
NormReferenceList ==
    <<<<>>,
     <<Elem("INSDSeq_references", <<>>,
         <<INSDReference(<<Leaf("INSDReference_title", <<"D","i","r","e","c","t"," ","S","u","b","m","i","s","s","i","o","n">>)>>),
           INSDReference(<<INSDDoiXref(<<"1","0",".","1","0","0","0","/","l","a","t","e","r",".","2">>)>>)>>)>>,
     <<Elem("INSDSeq_references", <<>>,
         <<INSDReference(<<INSDDoiXref(<<"1","0",".","1","0","0","0","/","f","i","r","s","t",".","1">>),
                           Leaf("INSDReference_journal", <<"J"," ","E","x","p"," ","1","0",".","1","2","3","4","/","a","b","c","d",".","5">>)>>)>>)>>,
     <<Elem("INSDSeq_references", <<>>,
         <<INSDReference(<<Leaf("INSDReference_journal", <<"Z","o","o","l"," ","1","0",".","1","2","3","4","/","a","b","c","d",".","5">>)>>),
           INSDReference(<<INSDDoiXref(<<"1","0",".","1","0","0","0","/","l","a","t","e","r",".","2">>)>>)>>)>>>>
NormReferences == {NormReferenceList[i] : i \in 1..Len(NormReferenceList)}
\* the INSDSeq nodes the normalizers are called on
NormNodes ==
    {Elem("INSDSeq", <<>>, a \o t \o f \o r) :
        a \in NormAccessions, t \in NormTitles, f \in NormFeatureTables, r \in NormReferences}

InitNorm ==
    /\ DefaultCfg
    /\ pc = "call"
    /\ pieces \in NormNodes
    /\ ret = <<>>
    /\ NoBatch
    /\ NoRun

\* the tree under the INSD field names, normalized as INSDSeq
Call_parse_insdseq_nodes ==
    /\ pc = "call"
    /\ ret' = <<parse_insdseq_nodes(<<pieces>>)>>
    /\ pc' = "insd"
    /\ UNCHANGED <<cfg, pieces, batch, run>>

\* the same tree under the GB field names, normalized as GBSeq
Call_parse_gbseq_nodes ==
    /\ pc = "insd"
    /\ ret' = Append(ret, parse_gbseq_nodes(<<AsGB(pieces)>>))
    /\ pc' = "done"
    /\ UNCHANGED <<cfg, pieces, batch, run>>

NextNorm == Call_parse_insdseq_nodes \/ Call_parse_gbseq_nodes

SpecNorm == InitNorm /\ [][NextNorm]_vars

----------------------------------------------------------------------------
(* efetch_records: from the response to the rows of the batch *)

\* time in hundredths of a second
REQUEST_DELAY == 35

\* the elements below node, in document order
RECURSIVE descendants(_)
descendants(node) ==
    flatten([i \in 1..Len(node.kids) |-> <<node.kids[i]>> \o descendants(node.kids[i])])

\* root.findall(".//tag")
findall_deep(root, tag) == SelectSeq(descendants(root), LAMBDA e : e.tag = tag)

\* b"<eFetchResult>" in raw and b"<ERROR>" in raw
error_payload(response) == {"<eFetchResult>", "<ERROR>"} \subseteq response.markers

\* the rows of the extraction script, which builds them in its normalizers
parse_insdseq_nodes_B(nodes) ==
    <<>> \o [i \in 1..Len(nodes) |-> insdseq_row(parse_insdseq_node(nodes[i]))]
parse_gbseq_nodes_B(nodes) ==
    <<>> \o [i \in 1..Len(nodes) |-> insdseq_row(parse_gbseq_node(nodes[i]))]

\* the choice of the normalizer with the GBSeq nodes looked at first
select_nodes_gb_first(root) ==
    Bind(findall_deep(root, "INSDSeq"), LAMBDA insd_list :
    Bind(findall_deep(root, "GBSeq"), LAMBDA gbseq_list :
      IF gbseq_list # <<>> THEN <<"format=GBSeq", gbseq_list>>
      ELSE IF insd_list # <<>> THEN <<"format=INSDSeq", insd_list>>
      ELSE <<"no INSDSeq/GBSeq nodes", <<>>>>))

\* insd_list, gbseq_list and the branch taken on them: the diagnostic and the nodes parsed
select_nodes(root) ==
    Bind(findall_deep(root, "INSDSeq"), LAMBDA insd_list :
    Bind(findall_deep(root, "GBSeq"), LAMBDA gbseq_list :
      IF insd_list # <<>> THEN <<"format=INSDSeq", insd_list>>
      ELSE IF gbseq_list # <<>> THEN <<"format=GBSeq", gbseq_list>>
      ELSE <<"no INSDSeq/GBSeq nodes", <<>>>>))

\* efetch_records of the eDNA script, from the response to the call of
\* _build_rows_from_parsed or to an early return
efetch_records ==
    /\ pc = "efetch"
    /\ script = "A"
    /\ slept' = slept + REQUEST_DELAY
    /\ IF ~raw.wellformed
       THEN /\ out' = Append(out, "XML parse error")
            /\ ret' = <<<<>>, <<>>>>
            /\ pc' = "done"
            /\ UNCHANGED batch
       ELSE \E sel \in {select_nodes(raw.root)} :
            /\ out' = Append(out, sel[1])
            /\ IF sel[2] = <<>>
               THEN /\ ret' = <<<<>>, <<>>>>
                    /\ pc' = "done"
                    /\ UNCHANGED batch
               ELSE /\ parsed' = IF sel[1] = "format=INSDSeq"
                                 THEN parse_insdseq_nodes(sel[2])
                                 ELSE parse_gbseq_nodes(sel[2])
                    /\ pc' = "loop"
                    /\ UNCHANGED <<ret, idx, ind_rows, edna_rows, drops, reason_counts, examples>>
    /\ UNCHANGED <<cfg, pieces, script, ENTREZ_EMAIL, SEARCH_TERMS, term_idx, retstart, ids,
                   all_ids, batch_index, individuals, edna, method, attempts, outstanding,
                   requests, gap, raw, written, status>>

\* efetch_records of the extraction script, from the response to its return
efetch_records_B ==
    /\ pc = "efetch"
    /\ script = "B"
    /\ slept' = slept + REQUEST_DELAY
    /\ IF error_payload(raw)
       THEN /\ out' = Append(out, "NCBI ERROR")
            /\ ret' = <<>>
       ELSE IF ~raw.wellformed
       THEN /\ out' = Append(out, "XML parse error")
            /\ ret' = <<>>
       ELSE \E sel \in {select_nodes(raw.root)} :
            /\ out' = Append(out, sel[1])
            /\ ret' = IF sel[1] = "format=INSDSeq" THEN parse_insdseq_nodes_B(sel[2])
                      ELSE IF sel[1] = "format=GBSeq" THEN parse_gbseq_nodes_B(sel[2])
                      ELSE <<>>
    /\ pc' = "done"
    /\ UNCHANGED <<cfg, pieces, batch, script, ENTREZ_EMAIL, SEARCH_TERMS, term_idx, retstart,
                   ids, all_ids, batch_index, individuals, edna, method, attempts, outstanding,
                   requests, gap, raw, written, status>>

----------------------------------------------------------------------------
(* Calls of efetch_records on responses *)

\* a response: whether it is well-formed XML, its root element, and which of the
\* byte strings "<eFetchResult>" and "<ERROR>" occur in it
Response(wellformed, root, markers) ==
    [wellformed |-> wellformed, root |-> root, markers |-> markers]

INSDNode(a, t, f, r) ==
    Elem("INSDSeq", <<>>, NormAccessionList[a] \o NormTitleList[t]
                            \o NormFeatureTableList[f] \o NormReferenceList[r])
FetchNodes == {INSDNode(3, 2, 2, 2), INSDNode(2, 1, 3, 3), INSDNode(1, 1, 4, 1), INSDNode(4, 2, 1, 4)}
INSDSet(nodes) == Elem("INSDSet", <<>>, nodes)

\* what the service sends when it reports an error
ErrorPayload ==
    Response(TRUE, Elem("eFetchResult", <<>>, <<Leaf("ERROR", <<"I","D"," ","l","i","s","t"," ","i","s"," ","e","m","p","t","y">>)>>),
             {"<eFetchResult>", "<ERROR>"})
MalformedResponses ==
    {Response(FALSE, NoElement, {}),
     Response(FALSE, NoElement, {"<eFetchResult>", "<ERROR>"})}

FetchResponses ==
         {Response(TRUE, INSDSet(ns), {}) : ns \in Lists(FetchNodes, MaxParsed)}
    \cup {Response(TRUE, AsGB(INSDSet(ns)), {}) : ns \in Lists(FetchNodes, MaxParsed)}
    \cup {Response(TRUE, Elem("Set", <<>>, <<AsGB(g), n>>), {}) : g \in FetchNodes, n \in FetchNodes}
    \cup {Response(TRUE, Elem("Bioseq-set", <<>>, <<INSDSet(<<n>>)>>), {}) : n \in FetchNodes}
    \cup {Response(TRUE, n, {}) : n \in FetchNodes}
    \cup {ErrorPayload,
          Response(TRUE, Elem("eFetchResult", <<>>, <<Leaf("ERROR", <<>>)>>), {"<eFetchResult>"})}
    \cup MalformedResponses

InitFetch ==
    /\ REGION_FILTER_ENABLED \in BOOLEAN
    /\ USE_LATLON_BOX = TRUE
    /\ CLASSIFY_EDNA \in BOOLEAN
    /\ EDNA_REGION_RELAXED = TRUE
    /\ COMPUTE_POPULATION_REP = TRUE
    /\ pc = "efetch"
    /\ pieces = <<>>
    /\ ret = <<>>
    /\ NoBatch
    /\ script \in {"A", "B"}
    /\ ENTREZ_EMAIL = <<"m","a","b","3","6","1","@","h","u","m","b","o","l","d","t",".","e","d","u">>
    /\ SEARCH_TERMS = <<>>
    /\ term_idx = 0
    /\ retstart = 0
    /\ ids = <<>>
    /\ all_ids = <<>>
    /\ batch_index = 0
    /\ individuals = <<>>
    /\ edna = <<>>
    /\ method = "POST"
    /\ attempts = 0
    /\ outstanding = 0
    /\ requests = 1
    /\ slept = 0
    /\ gap = 0
    /\ raw \in FetchResponses
    /\ out = <<>>
    /\ written = None
    /\ status = "none"

NextFetch ==
    \/ efetch_records
    \/ efetch_records_B
    \/ build_rows_from_parsed_rec
    \/ build_rows_from_parsed_return

SpecFetch == InitFetch /\ [][NextFetch]_vars

----------------------------------------------------------------------------
(* A run of main: http_request, esearch_ids, the batches, the output file *)

\* the configuration of a run, scaled down
ESARCH_PAGE == 2
MAX_RECORDS == 3
EFETCH_BATCH == 1

retry == 3
RETRY_SLEEP == 100

\* the service fails with a transport error only among the first FaultyRequests
\* requests of a run
FaultyRequests == 4

setup == <<cfg, script, ENTREZ_EMAIL, SEARCH_TERMS>>

RunIds == {"101", "202"}

\* what esearch sends: bytes that are JSON with an idlist, or that are not JSON
EsearchResponses ==
    {[json |-> TRUE, idlist |-> l] : l \in Lists(RunIds, ESARCH_PAGE)}
    \cup {[json |-> FALSE, idlist |-> <<>>]}

\* what efetch sends: one kept record, one environmental record, an error payload,
\* bytes that are not XML
RunIndividual ==
    Elem("INSDSeq", <<>>,
         NormAccessionList[3] \o NormTitleList[2]
         \o <<Elem("INSDSeq_feature-table", <<>>,
                <<INSDFeature(<<"s","o","u","r","c","e">>,
                     <<INSDQualifier(<<"c","o","u","n","t","r","y">>, <<"U","S","A",":"," ","C","a","l","i","f","o","r","n","i","a",","," ","M","o","n","t","e","r","e","y"," ","B","a","y">>),
                       INSDQualifier(<<"l","a","t","_","l","o","n">>, <<"3","6",".","5"," ","N"," ","1","2","1",".","9"," ","W">>)>>),
                  INSDFeature(<<"g","e","n","e">>, <<INSDQualifier(<<"g","e","n","e">>, <<"C","O","I">>)>>)>>)>>
         \o NormReferenceList[3])
RunFetchResponses ==
    {Response(TRUE, INSDSet(<<RunIndividual>>), {}),
     Response(TRUE, AsGB(INSDSet(<<INSDNode(1, 1, 4, 1)>>)), {}),
     ErrorPayload,
     Response(FALSE, NoElement, {})}

\* http_request, the head of its loop: the next attempt is sent, or last_err is raised
http_request ==
    /\ pc = "http"
    /\ IF attempts < retry
       THEN /\ requests' = requests + 1
            /\ outstanding' = outstanding + 1
            /\ gap' = slept
            /\ slept' = 0
            /\ pc' = "wait"
            /\ UNCHANGED status
       ELSE /\ status' = "transport error"
            /\ pc' = "exit"
            /\ UNCHANGED <<requests, outstanding, gap, slept>>
    /\ UNCHANGED <<setup, pieces, ret, batch, term_idx, retstart, ids, all_ids, batch_index,
                   individuals, edna, method, attempts, raw, out, written>>

\* http_request, the end of an attempt: the bytes read are returned to the caller
http_request_return ==
    /\ pc = "wait"
    /\ outstanding' = outstanding - 1
    /\ raw' \in IF method = "GET" THEN EsearchResponses ELSE RunFetchResponses
    /\ pc' = IF method = "GET" THEN "page" ELSE "efetch"
    /\ UNCHANGED <<setup, pieces, ret, batch, term_idx, retstart, ids, all_ids, batch_index,
                   individuals, edna, method, attempts, requests, slept, gap, out, written,
                   status>>

\* http_request retrying at once
http_request_except_at_once ==
    /\ pc = "wait"
    /\ requests <= FaultyRequests
    /\ outstanding' = outstanding - 1
    /\ attempts' = attempts + 1
    /\ pc' = "http"
    /\ UNCHANGED <<setup, pieces, ret, batch, term_idx, retstart, ids, all_ids, batch_index,
                   individuals, edna, method, requests, slept, gap, raw, out, written, status>>

\* http_request, the end of an attempt: HTTPError or URLError is caught and slept on
http_request_except ==
    /\ pc = "wait"
    /\ requests <= FaultyRequests
    /\ outstanding' = outstanding - 1
    /\ attempts' = attempts + 1
    /\ slept' = slept + RETRY_SLEEP
    /\ pc' = "http"
    /\ UNCHANGED <<setup, pieces, ret, batch, term_idx, retstart, ids, all_ids, batch_index,
                   individuals, edna, method, requests, gap, raw, out, written, status>>

\* http_request, the end of an attempt: any other exception (a timeout while the
\* response is read, a dropped connection) leaves the function and main
http_request_raise ==
    /\ pc = "wait"
    /\ outstanding' = outstanding - 1
    /\ status' = "other error"
    /\ pc' = "exit"
    /\ UNCHANGED <<setup, pieces, ret, batch, term_idx, retstart, ids, all_ids, batch_index,
                   individuals, edna, method, attempts, requests, slept, gap, raw, out,
                   written>>

\* esearch_ids, the head of its loop: the next page is requested, or ids is returned
esearch_ids ==
    /\ pc = "esearch"
    /\ IF retstart < MAX_RECORDS
       THEN /\ method' = "GET"
            /\ attempts' = 0
            /\ pc' = "http"
       ELSE /\ pc' = "searched"
            /\ UNCHANGED <<method, attempts>>
    /\ UNCHANGED <<setup, pieces, ret, batch, term_idx, retstart, ids, all_ids, batch_index,
                   individuals, edna, outstanding, requests, slept, gap, raw, out, written,
                   status>>

\* esearch_ids, the body of its loop after the page has come back
esearch_ids_page ==
    /\ pc = "page"
    /\ IF ~raw.json
       THEN /\ status' = "json error"
            /\ pc' = "exit"
            /\ UNCHANGED <<ids, retstart, slept>>
       ELSE IF raw.idlist = <<>>
       THEN /\ pc' = "searched"
            /\ UNCHANGED <<ids, retstart, slept, status>>
       ELSE IF Len(raw.idlist) < ESARCH_PAGE
       THEN /\ ids' = ids \o raw.idlist
            /\ retstart' = retstart + ESARCH_PAGE
            /\ pc' = "searched"
            /\ UNCHANGED <<slept, status>>
       ELSE /\ retstart' = retstart + ESARCH_PAGE
            /\ slept' = slept + REQUEST_DELAY
            /\ IF Len(ids \o raw.idlist) >= MAX_RECORDS
               THEN /\ ids' = SubSeq(ids \o raw.idlist, 1, MAX_RECORDS)
                    /\ pc' = "searched"
               ELSE /\ ids' = ids \o raw.idlist
                    /\ pc' = "esearch"
            /\ UNCHANGED status
    /\ UNCHANGED <<setup, pieces, ret, batch, term_idx, all_ids, batch_index, individuals,
                   edna, method, attempts, outstanding, requests, gap, raw, out, written>>

\* main of the main script, its first statement
main ==
    /\ pc = "main"
    /\ script = "A"
    /\ IF ENTREZ_EMAIL = <<>> \/ ~contains(ENTREZ_EMAIL, <<"@">>)
       THEN /\ status' = "SystemExit"
            /\ pc' = "exit"
       ELSE /\ pc' = "terms"
            /\ UNCHANGED status
    /\ UNCHANGED <<setup, pieces, ret, batch, term_idx, retstart, ids, all_ids, batch_index,
                   individuals, edna, net, out, written>>

\* main of the extraction script, its first statements
main_B ==
    /\ pc = "main"
    /\ script = "B"
    /\ IF SEARCH_TERMS = <<>>
       THEN /\ status' = "SystemExit"
            /\ pc' = "exit"
       ELSE /\ pc' = "terms"
            /\ UNCHANGED status
    /\ UNCHANGED <<setup, pieces, ret, batch, term_idx, retstart, ids, all_ids, batch_index,
                   individuals, edna, net, out, written>>

\* main, the head of the loop over SEARCH_TERMS: esearch_ids is called on the next
\* term; after the last one the main script goes on to the batches, or returns when
\* it has no ID, and the extraction script goes on to write the file
main_terms ==
    /\ pc = "terms"
    /\ IF term_idx < Len(SEARCH_TERMS)
       THEN /\ ids' = <<>>
            /\ retstart' = 0
            /\ pc' = "esearch"
            /\ UNCHANGED <<batch_index, status>>
       ELSE IF script = "B"
       THEN /\ pc' = "write"
            /\ UNCHANGED <<ids, retstart, batch_index, status>>
       ELSE IF all_ids = <<>>
       THEN /\ status' = "returned"
            /\ pc' = "exit"
            /\ UNCHANGED <<ids, retstart, batch_index>>
       ELSE /\ batch_index' = 0
            /\ pc' = "batches"
            /\ UNCHANGED <<ids, retstart, status>>
    /\ UNCHANGED <<setup, pieces, ret, batch, term_idx, all_ids, individuals, edna, net, out,
                   written>>

\* all followed by the members of new that are not in it yet, in their order
RECURSIVE unique_extend(_, _)
unique_extend(all, new) ==
    IF new = <<>> THEN all
    ELSE unique_extend(IF \E i \in 1..Len(all) : all[i] = new[1] THEN all
                       ELSE Append(all, new[1]), Tail(new))

\* main, after esearch_ids has returned with ids and without its locals retstart
\* and raw: the main script adds the new IDs to all_ids, the extraction script goes
\* on to the batches of this term
main_ids ==
    /\ pc = "searched"
    /\ IF script = "A"
       THEN /\ all_ids' = unique_extend(all_ids, ids)
            /\ term_idx' = term_idx + 1
            /\ pc' = "terms"
            /\ UNCHANGED batch_index
       ELSE IF ids = <<>>
       THEN /\ term_idx' = term_idx + 1
            /\ pc' = "terms"
            /\ UNCHANGED <<all_ids, batch_index>>
       ELSE /\ batch_index' = 0
            /\ pc' = "batches"
            /\ UNCHANGED <<all_ids, term_idx>>
    /\ retstart' = 0
    /\ raw' = None
    /\ UNCHANGED <<setup, pieces, ret, batch, ids, individuals, edna, method, attempts,
                   outstanding, requests, slept, gap, out, written, status>>

\* the number of batches without the last, shorter one
total_batches_full_only(id_list, size) == Len(id_list) \div size

\* (len(id_list) + EFETCH_BATCH - 1) // EFETCH_BATCH for a batch size
total_batches_for(id_list, size) == (Len(id_list) + size - 1) \div size

\* id_list[start : start + EFETCH_BATCH] for a batch size
id_batch_for(id_list, start, size) ==
    SubSeq(id_list, start + 1,
           IF start + size < Len(id_list) THEN start + size ELSE Len(id_list))

total_batches(id_list) == total_batches_for(id_list, EFETCH_BATCH)

\* id_list[start : start + EFETCH_BATCH]
id_batch(id_list, start) == id_batch_for(id_list, start, EFETCH_BATCH)

\* the IDs main cuts into batches
batched_ids == IF script = "A" THEN all_ids ELSE ids

\* main, the head of the loop over the batches: efetch_records is called on the next
\* batch and posts its request
main_batches ==
    /\ pc = "batches"
    /\ IF batch_index < total_batches(batched_ids)
       THEN /\ pieces' = id_batch(batched_ids, batch_index * EFETCH_BATCH)
            /\ method' = "POST"
            /\ attempts' = 0
            /\ pc' = "http"
            /\ UNCHANGED term_idx
       ELSE IF script = "A"
       THEN /\ pc' = "write"
            /\ UNCHANGED <<pieces, method, attempts, term_idx>>
       ELSE /\ term_idx' = term_idx + 1
            /\ pc' = "terms"
            /\ UNCHANGED <<pieces, method, attempts>>
    /\ UNCHANGED <<setup, ret, batch, retstart, ids, all_ids, batch_index, individuals, edna,
                   outstanding, requests, slept, gap, raw, out, written, status>>

\* main keeping the rows of the last batch only
main_extend_last_batch ==
    /\ pc = "done"
    /\ IF script = "A"
       THEN /\ individuals' = ret[1]
            /\ edna' = ret[2]
       ELSE /\ individuals' = ret
            /\ UNCHANGED edna
    /\ batch_index' = batch_index + 1
    /\ ret' = <<>>
    /\ parsed' = <<>>
    /\ idx' = 0
    /\ ind_rows' = <<>>
    /\ edna_rows' = <<>>
    /\ drops' = 0
    /\ reason_counts' = [r \in {"text", "latlon", "pacific"} |-> 0]
    /\ examples' = <<>>
    /\ raw' = None
    /\ pc' = "batches"
    /\ UNCHANGED <<setup, pieces, term_idx, retstart, ids, all_ids, method, attempts,
                   outstanding, requests, slept, gap, out, written, status>>

\* main putting the rows of the batch before those of the earlier batches
main_extend_newest_first ==
    /\ pc = "done"
    /\ IF script = "A"
       THEN /\ individuals' = ret[1] \o individuals
            /\ edna' = ret[2] \o edna
       ELSE /\ individuals' = ret \o individuals
            /\ UNCHANGED edna
    /\ batch_index' = batch_index + 1
    /\ ret' = <<>>
    /\ parsed' = <<>>
    /\ idx' = 0
    /\ ind_rows' = <<>>
    /\ edna_rows' = <<>>
    /\ drops' = 0
    /\ reason_counts' = [r \in {"text", "latlon", "pacific"} |-> 0]
    /\ examples' = <<>>
    /\ raw' = None
    /\ pc' = "batches"
    /\ UNCHANGED <<setup, pieces, term_idx, retstart, ids, all_ids, method, attempts,
                   outstanding, requests, slept, gap, out, written, status>>

\* main, after efetch_records has returned without its locals: the rows of the
\* batch are added
main_extend ==
    /\ pc = "done"
    /\ IF script = "A"
       THEN /\ individuals' = individuals \o ret[1]
            /\ edna' = edna \o ret[2]
       ELSE /\ individuals' = individuals \o ret
            /\ UNCHANGED edna
    /\ batch_index' = batch_index + 1
    /\ ret' = <<>>
    /\ parsed' = <<>>
    /\ idx' = 0
    /\ ind_rows' = <<>>
    /\ edna_rows' = <<>>
    /\ drops' = 0
    /\ reason_counts' = [r \in {"text", "latlon", "pacific"} |-> 0]
    /\ examples' = <<>>
    /\ raw' = None
    /\ pc' = "batches"
    /\ UNCHANGED <<setup, pieces, term_idx, retstart, ids, all_ids, method, attempts,
                   outstanding, requests, slept, gap, out, written, status>>

\* the cells of the columns before the last one
cells_short(r) ==
    [k \in 1..(Len(FIELDS) - 1) |-> IF FIELDS[k] \in DOMAIN r THEN r[FIELDS[k]] ELSE <<>>]

\* [r.get(k, "") for k in FIELDS]
cells(r) == [k \in 1..Len(FIELDS) |-> IF FIELDS[k] \in DOMAIN r THEN r[FIELDS[k]] ELSE <<>>]

\* [FIELDS] + [[r.get(k, "") for k in FIELDS] for r in rows]
table(rows) == <<FIELDS>> \o [i \in 1..Len(rows) |-> cells(rows[i])]

sheet(name, rows) == [name |-> name, rows |-> rows]

meta ==
    IF script = "A"
    THEN <<<<"Notes">>, <<"Dataset compiled via NCBI E-utilities (stdlib)">>,
           <<<<"Region filter", REGION_FILTER_ENABLED, "lat/lon box", USE_LATLON_BOX>>>>,
           <<<<"eDNA split", CLASSIFY_EDNA>>>>, <<<<"Columns", FIELDS>>>>, <<"Generated UTC">>>>
    ELSE <<<<"Notes">>, <<"Dataset compiled via NCBI E-utilities (stdlib)">>,
           <<"Regions: Alaska -> Baja California">>,
           <<"Data fields left blank where unavailable">>>>

\* main handing the eDNA rows to add_population_rep as well
main_write_all_aggregated ==
    /\ pc = "write"
    /\ written' = <<sheet("Marine_Tardigrades_Individuals",
                          table(IF script = "A" THEN add_population_rep(individuals)
                                ELSE individuals)),
                    sheet("Marine_Tardigrades_eDNA",
                          table(IF script = "A" THEN add_population_rep(edna) ELSE edna)),
                    sheet("Metadata_Notes", meta)>>
    /\ individuals' = IF script = "A" THEN add_population_rep(individuals) ELSE individuals
    /\ edna' = IF script = "A" THEN add_population_rep(edna) ELSE edna
    /\ status' = "done"
    /\ pc' = "exit"
    /\ UNCHANGED <<setup, pieces, ret, batch, term_idx, retstart, ids, all_ids, batch_index,
                   net, out>>

\* main, its last statements: the three sheets are written to OUT_FILE
main_write ==
    /\ pc = "write"
    /\ written' = <<sheet("Marine_Tardigrades_Individuals",
                          table(IF script = "A" THEN add_population_rep(individuals)
                                ELSE individuals)),
                    sheet("Marine_Tardigrades_eDNA", table(edna)),
                    sheet("Metadata_Notes", meta)>>
    /\ individuals' = IF script = "A" THEN add_population_rep(individuals) ELSE individuals
    /\ status' = "done"
    /\ pc' = "exit"
    /\ UNCHANGED <<setup, pieces, ret, batch, term_idx, retstart, ids, all_ids, batch_index,
                   edna, net, out>>

----------------------------------------------------------------------------
(* Runs of main against a service that answers as it likes *)

\* the scripts as configured, with one query and with two, and with each
\* configuration error
RunTerms == <<"Tardigrada[Organism]", "Heterotardigrada[Organism]">>
RunSetups ==
    {<<s, <<"m","a","b","3","6","1","@","h","u","m","b","o","l","d","t",".","e","d","u">>, SubSeq(RunTerms, 1, n)>> : s \in {"A", "B"}, n \in 0..1}
    \cup {<<"A", <<"m","a","b","3","6","1","@","h","u","m","b","o","l","d","t",".","e","d","u">>, RunTerms>>}
    \cup {<<s, <<>>, SubSeq(RunTerms, 1, 1)>> : s \in {"A", "B"}}
    \cup {<<"A", <<"m","a","b","3","6","1"," ","a","t"," ","h","u","m","b","o","l","d","t",".","e","d","u">>, SubSeq(RunTerms, 1, 1)>>}

InitRun ==
    /\ DefaultCfg
    /\ pc = "main"
    /\ pieces = <<>>
    /\ ret = <<>>
    /\ NoBatch
    /\ \E s \in RunSetups :
           /\ script = s[1]
           /\ ENTREZ_EMAIL = s[2]
           /\ SEARCH_TERMS = s[3]
    /\ term_idx = 0
    /\ retstart = 0
    /\ ids = <<>>
    /\ all_ids = <<>>
    /\ batch_index = 0
    /\ individuals = <<>>
    /\ edna = <<>>
    /\ method = "GET"
    /\ attempts = 0
    /\ outstanding = 0
    /\ requests = 0
    /\ slept = 0
    /\ gap = 0
    /\ raw = None
    /\ out = <<>>
    /\ written = None
    /\ status = "none"

NextRun ==
    \/ main
    \/ main_B
    \/ main_terms
    \/ esearch_ids
    \/ http_request
    \/ http_request_return
    \/ http_request_except
    \/ http_request_raise
    \/ esearch_ids_page
    \/ main_ids
    \/ main_batches
    \/ efetch_records
    \/ efetch_records_B
    \/ build_rows_from_parsed_rec
    \/ build_rows_from_parsed_return
    \/ main_write
    \/ main_extend

SpecRun == InitRun /\ [][NextRun]_vars

----------------------------------------------------------------------------
(* C13: the citation comes from the first reference *)

\* the sequence nodes of a response: its INSDSeq nodes, else its GBSeq nodes
SeqNodes(response) ==
    IF ~response.wellformed THEN <<>>
    ELSE Bind(descendants(response.root), LAMBDA below :
         Bind(SelectSeq(below, LAMBDA e : e.tag = "INSDSeq"), LAMBDA insd :
           IF insd # <<>> THEN insd ELSE SelectSeq(below, LAMBDA e : e.tag = "GBSeq")))
\* the references of a sequence node, under either schema's names
References(node) ==
    findall(node, <<"INSDSeq_references", "INSDReference">>)
        \o findall(node, <<"GBSeq_references", "GBReference">>)
\* extract_doi_any of the first reference, "" without references
FirstReferenceDoi(node) ==
    Bind(References(node), LAMBDA refs :
      IF refs = <<>> THEN <<>> ELSE extract_doi_any(refs[1]))
\* no DOI in the cross-references or in the free text of the reference
NoDoi(ref) ==
    InsdIds(ref) = <<>> /\ GbIds(ref) = <<>> /\ DOI_RE_search(FreeText(ref)) = None
\* the first reference is without a DOI and a later one has it
LaterDoiOnly(node) ==
    \E refs \in {References(node)} :
        /\ Len(refs) > 1
        /\ NoDoi(refs[1])
        /\ \E i \in 2..Len(refs) : ~NoDoi(refs[i])

\* C13: every row built from a record carries as Citation_DOI the result of
\* extract_doi_any on the record's first reference, and "" when the record has
\* no reference: in the eDNA script for the row appended by the loop step of
\* the record, in the extraction script for each row returned.  A record whose
\* first reference has no DOI gets "" even though a later reference has one.
C13_FirstReferenceOnly ==
    [][/\ (script = "A" /\ pc = "loop" /\ idx < Len(parsed)) =>
            \E node \in {SeqNodes(raw)[idx + 1]} : \E doi \in {FirstReferenceDoi(node)} :
                /\ Len(ind_rows') > Len(ind_rows) =>
                      ind_rows'[Len(ind_rows')]["Citation_DOI"] = doi
                /\ Len(edna_rows') > Len(edna_rows) =>
                      edna_rows'[Len(edna_rows')]["Citation_DOI"] = doi
                /\ LaterDoiOnly(node) => doi = <<>>
                /\ References(node) = <<>> => doi = <<>>
       /\ (script = "B" /\ pc = "efetch") =>
            \E nodes \in {IF error_payload(raw) THEN <<>> ELSE SeqNodes(raw)} :
                /\ Len(ret') = Len(nodes)
                /\ \A i \in 1..Len(nodes) :
                      /\ ret'[i]["Citation_DOI"] = FirstReferenceDoi(nodes[i])
                      /\ LaterDoiOnly(nodes[i]) => ret'[i]["Citation_DOI"] = <<>>
      ]_vars

\* the row of a record whose second reference alone carries a DOI has been
\* kept with an empty Citation_DOI
C13_Witness ==
    /\ script = "A"
    /\ pc = "done"
    /\ raw = Response(TRUE, INSDSet(<<INSDNode(3, 2, 2, 2)>>), {})
    /\ LaterDoiOnly(SeqNodes(raw)[1])
    /\ Len(ind_rows) = 1
    /\ ind_rows[1]["Citation_DOI"] = <<>>

----------------------------------------------------------------------------
(* C14: the two normalizers agree *)

\* the text of the first child with the tag, "" without such a child
ChildText(node, tag) ==
    IF children(node, tag) = <<>> THEN <<>> ELSE children(node, tag)[1].text
\* the version-qualified accession when it is not empty, else the primary accession
PreferredAccession(node) ==
    IF ChildText(node, "INSDSeq_accession-version") # <<>>
    THEN ChildText(node, "INSDSeq_accession-version")
    ELSE ChildText(node, "INSDSeq_primary-accession")

\* C14: for every record tree, _parse_insdseq_nodes on the tree under the INSD
\* field names and _parse_gbseq_nodes on the same tree under the GB field names
\* return equal records: the same accession (the version-qualified one
\* preferred over the primary one), organism, definition, locality, raw
\* lat/lon, depth, date, feature notes in the same order, qualifier names, DOI.
C14_NormalizersAgree ==
    pc = "done" =>
        /\ Len(ret[1]) = 1
        /\ Len(ret[2]) = 1
        /\ ret[1] = ret[2]
        /\ \A field \in {"accession", "organism", "definition", "locality", "lat_raw",
                         "depth", "date", "feature_notes", "qual_names", "doi"} :
              ret[1][1][field] = ret[2][1][field]
        /\ ret[2][1].accession = PreferredAccession(pieces)

\* a tree with both accession fields, a source feature and a DOI has given the
\* same record under both schemas, with the version-qualified accession
C14_Witness ==
    /\ pc = "done"
    /\ ChildText(pieces, "INSDSeq_primary-accession") = <<"M","K","1">>
    /\ ret[1][1].accession = <<"M","K","1",".","2">>
    /\ ret[2][1].accession = <<"M","K","1",".","2">>
    /\ ret[2][1].locality = <<"U","S","A",":"," ","C","a","l","i","f","o","r","n","i","a">>
    /\ Len(ret[2][1].feature_notes) = 4
    /\ ret[2][1].doi = <<"1","0",".","1","0","0","0","/","f","i","r","s","t",".","1">>

----------------------------------------------------------------------------
(* C15: which qualifiers become feature notes *)

\* <<feature key, lower-cased qualifier name, value>> of the qualifiers of an
\* INSDSeq node, in document order
Qualifiers(node) ==
    Bind(findall(node, <<"INSDSeq_feature-table", "INSDFeature">>), LAMBDA feats :
      flatten([f \in 1..Len(feats) |->
        Bind(findall(feats[f], <<"INSDFeature_quals", "INSDQualifier">>), LAMBDA qs :
          <<>> \o [q \in 1..Len(qs) |->
            <<ChildText(feats[f], "INSDFeature_key"),
              lower(ChildText(qs[q], "INSDQualifier_name")),
              ChildText(qs[q], "INSDQualifier_value")>>])]))
\* the non-empty values of the qualifiers that satisfy Wanted(key, name)
NotesWhere(node, Wanted(_, _)) ==
    Bind(SelectSeq(Qualifiers(node), LAMBDA t : Wanted(t[1], t[2]) /\ t[3] # <<>>),
      LAMBDA kept : <<>> \o [i \in 1..Len(kept) |-> kept[i][3]])
NoteNames == {<<"g","e","n","e">>, <<"p","r","o","d","u","c","t">>, <<"i","s","o","l","a","t","i","o","n","_","s","o","u","r","c","e">>, <<"n","o","t","e">>}
AnyFeatureNotes(node) == NotesWhere(node, LAMBDA key, name : name \in NoteNames)
ByFeatureNotes(node) ==
    NotesWhere(node, LAMBDA key, name :
        IF key = <<"s","o","u","r","c","e">> THEN name \in {<<"i","s","o","l","a","t","i","o","n","_","s","o","u","r","c","e">>, <<"n","o","t","e">>}
        ELSE name \in {<<"g","e","n","e">>, <<"p","r","o","d","u","c","t">>})

\* C15 as stated: the notes are the non-empty gene, product, isolation_source
\* and note values of every feature, whatever its key.
C15_AsStated ==
    pc = "done" =>
        /\ ret[1][1].feature_notes = AnyFeatureNotes(pieces)
        /\ ret[2][1].feature_notes = AnyFeatureNotes(pieces)

\* C15 (amended): the Record Normalizer collects as free-text notes, in document
\* order, the non-empty values of isolation_source and note qualifiers of the
\* features whose key is "source" and the non-empty values of gene and product
\* qualifiers of the features with any other key; a note or isolation_source
\* qualifier on a non-source feature and a gene or product qualifier on a
\* source feature are not included.
C15_FeatureNotes ==
    pc = "done" =>
        /\ ret[1][1].feature_notes = ByFeatureNotes(pieces)
        /\ ret[2][1].feature_notes = ByFeatureNotes(pieces)

\* a record with a note on a CDS feature and a gene on its source feature has
\* been normalized without any feature note
C15_Witness ==
    /\ pc = "done"
    /\ Len(AnyFeatureNotes(pieces)) = 4
    /\ <<<<"C","D","S">>, <<"n","o","t","e">>, <<"I","T","S","2">>>> = Qualifiers(pieces)[1]
    /\ <<<<"s","o","u","r","c","e">>, <<"g","e","n","e">>, <<"1","8","S">>>> = Qualifiers(pieces)[4]
    /\ ret[1][1].feature_notes = <<>>
    /\ ret[2][1].feature_notes = <<>>

----------------------------------------------------------------------------
(* C16: the choice of the normalizer *)

INSDSeqNodes(response) == SelectSeq(descendants(response.root), LAMBDA e : e.tag = "INSDSeq")
GBSeqNodes(response) == SelectSeq(descendants(response.root), LAMBDA e : e.tag = "GBSeq")
\* the response went through efetch_records as XML
Parsed(response) ==
    /\ pc \in {"loop", "done"}
    /\ response.wellformed
    /\ script = "B" => ~error_payload(response)
\* what the normalizers give for the nodes: records in the eDNA script, rows in
\* the extraction script
Normalized == IF script = "A" THEN parsed ELSE ret

----------------------------------------------------------------------------
(* C17: a malformed efetch response *)

\* the response is not XML, or it is the error document of the service
Malformed(response) ==
    \/ ~response.wellformed
    \/ /\ response.root.tag = "eFetchResult"
       /\ \E i \in 1..Len(response.root.kids) : response.root.kids[i].tag = "ERROR"

\* what efetch_records returns for a batch without rows
NoRows == IF script = "A" THEN <<<<>>, <<>>>> ELSE <<>>

\* the run ended in an exception of http_request or of the esearch response
RequestFailed == status \in {"transport error", "other error", "json error"}

\* C17: efetch_records returns no rows for a response that is not XML or that is
\* the error document of the service, and the run is not ended by it: main adds
\* nothing to the rows of the earlier batches and goes on with the next batch;
\* once the batches are begun only a failed request keeps the run from writing
\* the file, and the file is written after one response per batch.
C17_MalformedBatchSkipped ==
    [][/\ (pc = "efetch" /\ Malformed(raw)) =>
             /\ pc' = "done"
             /\ ret' = NoRows
             /\ status' = "none"
             /\ individuals' = individuals /\ edna' = edna
       /\ (pc = "done" /\ Malformed(raw)) =>
             /\ individuals' = individuals /\ edna' = edna
             /\ status' = "none"
             /\ pc' = "batches"
             /\ batch_index' = batch_index + 1
       /\ (pc = "batches" /\ batch_index < total_batches(batched_ids)) =>
             /\ pc' = "http"
             /\ method' = "POST"
             /\ pieces' = id_batch(batched_ids, batch_index * EFETCH_BATCH)
       /\ (pc' = "exit" /\ out' # <<>>) =>
             \/ RequestFailed'
             \/ /\ status' = "done"
                /\ written' # None
                /\ script = "A" => Len(out') = total_batches(all_ids')
      ]_vars

\* a run of the extraction script has written its file with the rows of the first
\* and of the third batch after the second one came back as an error document
C17_Witness ==
    /\ script = "B"
    /\ status = "done"
    /\ out = <<"format=INSDSeq", "NCBI ERROR", "format=GBSeq">>
    /\ Len(individuals) = 2
    /\ Len(written[1].rows) = 3

----------------------------------------------------------------------------
(* C18: the retries of http_request *)

\* the step sends an attempt
Attempt == pc = "http" /\ pc' = "wait"
\* the step ends an attempt with the bytes of the response
Succeeded == pc = "wait" /\ pc' \in {"page", "efetch"}
\* the step ends an attempt with a transport error, HTTPError or URLError
Failed == pc = "wait" /\ pc' = "http"
\* the step raises the last transport error out of http_request
Raised == pc = "http" /\ status' = "transport error"

\* C18: one call of http_request sends at most retry attempts; the first attempt
\* that succeeds ends the call with its bytes; every attempt that fails with a
\* transport error is followed by a sleep of the fixed backoff; the last transport
\* error is raised after retry failed attempts and only then; nothing catches it:
\* the run is over with no request outstanding and no file written, and a run that
\* is over sends nothing and writes nothing.
C18_RetryThenRaise ==
    [][/\ Attempt => (attempts < retry /\ attempts' = attempts /\ requests' = requests + 1)
       /\ Succeeded =>
             /\ raw' \in EsearchResponses \cup RunFetchResponses
             /\ requests' = requests
             /\ status' = "none"
       /\ Failed =>
             /\ attempts' = attempts + 1
             /\ slept' = slept + RETRY_SLEEP
             /\ requests' = requests
       /\ Raised =>
             /\ attempts = retry
             /\ slept = RETRY_SLEEP
             /\ pc' = "exit"
             /\ requests' = requests
             /\ outstanding' = 0
             /\ written' = None
       /\ (pc = "http" /\ attempts = retry) => Raised
       /\ pc = "exit" => (requests' = requests /\ written' = written /\ status' = status)
      ]_vars

\* efetch_records of the main script has posted its batch three times and the
\* third transport error has ended the run
C18_Witness ==
    /\ script = "A"
    /\ status = "transport error"
    /\ method = "POST"
    /\ attempts = retry
    /\ requests = 4
    /\ pieces # <<>>
    /\ written = None

----------------------------------------------------------------------------
(* C19: configuration errors *)

\* the query list is empty or the contact address is missing
ConfigurationError == SEARCH_TERMS = <<>> \/ ENTREZ_EMAIL = <<>>

\* C19: with an empty query list or a missing contact address main stops with an
\* error at its first statement: no request has been sent and no file written.
C19_AsStated ==
    ConfigurationError =>
        /\ requests = 0
        /\ written = None
        /\ pc # "main" => (pc = "exit" /\ status = "SystemExit")

\* the extraction script, without a contact address, has sent its requests and
\* written its file
C19_Witness ==
    /\ script = "B"
    /\ ENTREZ_EMAIL = <<>>
    /\ status = "done"
    /\ requests > 0
    /\ written # None

----------------------------------------------------------------------------
(* C20: the delay between requests *)

\* C20: every request but the first of a run is sent after a sleep of at least
\* REQUEST_DELAY since the request before it, and no request is sent while
\* another one is outstanding.
C20_AsStated ==
    /\ requests >= 2 => gap >= REQUEST_DELAY
    /\ outstanding <= 1

\* the main script has posted its first batch without any sleep since its only
\* esearch request, whose page came back short
C20_Witness ==
    /\ script = "A"
    /\ pc = "wait"
    /\ method = "POST"
    /\ requests = 2
    /\ Len(all_ids) = 1
    /\ gap = 0

----------------------------------------------------------------------------
(* The IDs of a run: esearch_ids for any page size and cap, the IDs main sends *)

\* what a service that holds the result list found sends for retstart and retmax
result_page(found, start, retmax) ==
    SubSeq(found, start + 1, IF start + retmax < Len(found) THEN start + retmax ELSE Len(found))

\* esearch_ids from the state of its loop, when the service holds found for the
\* term: result_page(found, start, retmax) is the idlist of the response
RECURSIVE esearch_ids_loop(_, _, _, _, _)
esearch_ids_loop(retmax, cap, found, id_list, start) ==
    IF ~(start < cap) THEN id_list
    ELSE IF result_page(found, start, retmax) = <<>> THEN id_list
    ELSE IF Len(result_page(found, start, retmax)) < retmax
    THEN id_list \o result_page(found, start, retmax)
    ELSE IF Len(id_list \o result_page(found, start, retmax)) >= cap
    THEN SubSeq(id_list \o result_page(found, start, retmax), 1, cap)
    ELSE esearch_ids_loop(retmax, cap, found, id_list \o result_page(found, start, retmax),
                          start + retmax)

\* esearch_ids(term, retmax, cap) when the service holds found for the term
esearch_ids_found(retmax, cap, found) == esearch_ids_loop(retmax, cap, found, <<>>, 0)

\* the IDs main sends to efetch, in the order it sends them, when the service
\* holds founds[t] for the t-th search term: the main script sends all_ids, the
\* extraction script the ids of each term
RECURSIVE sent_ids(_, _, _, _)
sent_ids(which, retmax, cap, founds) ==
    IF founds = <<>> THEN <<>>
    ELSE IF which = "A"
    THEN unique_extend(sent_ids(which, retmax, cap, SubSeq(founds, 1, Len(founds) - 1)),
                       esearch_ids_found(retmax, cap, founds[Len(founds)]))
    ELSE sent_ids(which, retmax, cap, SubSeq(founds, 1, Len(founds) - 1))
         \o esearch_ids_found(retmax, cap, founds[Len(founds)])

----------------------------------------------------------------------------
(* Calls of esearch_ids and of the search loop of main *)

MaxPage == 3
MaxCap == 4
MaxTerms == 2
MaxFound == 5

\* the records of the database, in the order the service lists them
Catalogue == [i \in 1..MaxFound |-> <<"id", i>>]

\* what a search finds: the first records of the catalogue, or its last ones
Founds ==
    {SubSeq(Catalogue, 1, j) : j \in 0..MaxFound}
    \cup {SubSeq(Catalogue, i, MaxFound) : i \in 1..MaxFound}

InitSearch ==
    /\ DefaultCfg
    /\ pc = "call"
    /\ \E retmax \in 1..MaxPage, cap \in 1..MaxCap, founds \in Lists(Founds, MaxTerms) :
           pieces = <<retmax, cap, founds>>
    /\ ret = <<>>
    /\ NoBatch
    /\ script \in {"A", "B"}
    /\ ENTREZ_EMAIL = <<"m","a","b","3","6","1","@","h","u","m","b","o","l","d","t",".","e","d","u">>
    /\ SEARCH_TERMS = <<>>
    /\ term_idx = 0
    /\ retstart = 0
    /\ ids = <<>>
    /\ all_ids = <<>>
    /\ batch_index = 0
    /\ individuals = <<>>
    /\ edna = <<>>
    /\ method = "GET"
    /\ attempts = 0
    /\ outstanding = 0
    /\ requests = 0
    /\ slept = 0
    /\ gap = 0
    /\ raw = None
    /\ out = <<>>
    /\ written = None
    /\ status = "none"

\* the search loop of main: ret is the ids of every term, then the IDs sent
Call_esearch_ids ==
    /\ pc = "call"
    /\ ret' = <<[t \in 1..Len(pieces[3]) |->
                    esearch_ids_found(pieces[1], pieces[2], pieces[3][t])],
                sent_ids(script, pieces[1], pieces[2], pieces[3])>>
    /\ pc' = "done"
    /\ UNCHANGED <<cfg, pieces, batch, run>>

NextSearch == Call_esearch_ids

SpecSearch == InitSearch /\ [][NextSearch]_vars

----------------------------------------------------------------------------
(* C21: the cap on the IDs *)

\* C21: for every page size, cap and number of search terms, esearch_ids returns
\* at most cap IDs for each term, and main sends at most cap IDs to efetch in the
\* run.
C21_AsStated ==
    pc = "done" =>
        /\ \A t \in 1..Len(ret[1]) : Len(ret[1][t]) <= pieces[2]
        /\ Len(ret[2]) <= pieces[2]

\* with pages of one ID and a cap of two the main script has got two IDs for each
\* of two search terms and sends all four of them to efetch
C21_Witness ==
    /\ script = "A"
    /\ pc = "done"
    /\ pieces[1] = 1
    /\ pieces[2] = 2
    /\ Len(ret[1]) = 2
    /\ Len(ret[1][1]) = 2
    /\ Len(ret[1][2]) = 2
    /\ Len(ret[2]) = 4

----------------------------------------------------------------------------
(* C22: the IDs are sent once *)

\* the IDs esearch_ids returned, term after term
RECURSIVE Returned(_)
Returned(lists) ==
    IF lists = <<>> THEN <<>> ELSE Returned(SubSeq(lists, 1, Len(lists) - 1)) \o lists[Len(lists)]

\* where x is first in s
FirstAt(s, x) == CHOOSE i \in 1..Len(s) : s[i] = x /\ \A k \in 1..(i - 1) : s[k] # x

\* C22: whatever the search terms find, the IDs sent to efetch are the IDs
\* esearch_ids returned, each of them once, in the order in which they were
\* returned first.
C22_AsStated ==
    pc = "done" =>
        \E found \in {Returned(ret[1])} : \E sent \in {ret[2]} :
            /\ \A i, j \in 1..Len(sent) : sent[i] = sent[j] => i = j
            /\ {sent[i] : i \in 1..Len(sent)} = {found[i] : i \in 1..Len(found)}
            /\ \A i, j \in 1..Len(sent) :
                  i < j => FirstAt(found, sent[i]) < FirstAt(found, sent[j])

\* the extraction script has sent the first record to efetch twice, once for each
\* of the two search terms that found it
C22_Witness ==
    /\ script = "B"
    /\ pc = "done"
    /\ Len(pieces[3]) = 2
    /\ ret[1][1] = <<Catalogue[1]>>
    /\ ret[1][2] = <<Catalogue[1]>>
    /\ ret[2] = <<Catalogue[1], Catalogue[1]>>

----------------------------------------------------------------------------
(* C23: the three tables *)

\* every row of the table has n cells
Width(t, n) == \A i \in 1..Len(t.rows) : Len(t.rows[i]) = n

\* the sheets are the three tables, Individuals and eDNA under the header FIELDS
ThreeTables ==
    /\ Len(written) = 3
    /\ written[1].name = "Marine_Tardigrades_Individuals"
    /\ written[2].name = "Marine_Tardigrades_eDNA"
    /\ written[3].name = "Metadata_Notes"
    /\ Len(FIELDS) = 14
    /\ written[1].rows[1] = FIELDS
    /\ written[2].rows[1] = FIELDS

\* C23 as stated: every row of each of the three tables has exactly 14 cells, and
\* the first row of the Individuals and eDNA tables is the header.
C23_AsStated ==
    written # None => (ThreeTables /\ \A s \in 1..3 : Width(written[s], 14))

\* C23: the Individuals and eDNA tables are the header FIELDS followed by one row
\* of 14 cells for every row of the run, in order; every row of the Metadata
\* table has one cell.
C23_TableShape ==
    written # None =>
        /\ ThreeTables
        /\ Width(written[1], 14)
        /\ Width(written[2], 14)
        /\ Width(written[3], 1)
        /\ Len(written[1].rows) = 1 + Len(individuals)
        /\ Len(written[2].rows) = 1 + Len(edna)
        /\ \A i \in 1..Len(individuals) : \A k \in 1..14 :
              written[1].rows[i + 1][k] = individuals[i][FIELDS[k]]
        /\ \A i \in 1..Len(edna) : \A k \in 1..14 :
              written[2].rows[i + 1][k] = edna[i][FIELDS[k]]

\* the main script has written an Individuals table and an eDNA table of two
\* rows each, and its notes
C23_Witness ==
    /\ script = "A"
    /\ status = "done"
    /\ Len(written[1].rows) = 2
    /\ Len(written[2].rows) = 2
    /\ Len(written[3].rows) = 6

----------------------------------------------------------------------------
(* The batches of a run when the service sends sets of several records *)

\* a kept record of the given accession
CollectRecord(a) ==
    Elem("INSDSeq", <<>>,
         NormAccessionList[a] \o NormTitleList[2]
         \o <<Elem("INSDSeq_feature-table", <<>>,
                <<INSDFeature(<<"s","o","u","r","c","e">>,
                     <<INSDQualifier(<<"c","o","u","n","t","r","y">>, <<"U","S","A",":"," ","C","a","l","i","f","o","r","n","i","a",","," ","M","o","n","t","e","r","e","y"," ","B","a","y">>),
                       INSDQualifier(<<"l","a","t","_","l","o","n">>, <<"3","6",".","5"," ","N"," ","1","2","1",".","9"," ","W">>)>>),
                  INSDFeature(<<"g","e","n","e">>, <<INSDQualifier(<<"g","e","n","e">>, <<"C","O","I">>)>>)>>)>>
         \o NormReferenceList[3])

\* two records of one population, an environmental record with coordinates in the
\* box, and a record without locality
CollectNodes ==
    {CollectRecord(3), CollectRecord(4), INSDNode(1, 1, 4, 1), INSDNode(4, 2, 1, 4)}

CollectResponses == {Response(TRUE, INSDSet(ns), {}) : ns \in Lists(CollectNodes, MaxParsed)}

\* http_request, the end of an attempt: the bytes of a set of records are returned
\* to efetch_records
http_request_return_records ==
    /\ pc = "wait"
    /\ method = "POST"
    /\ outstanding' = outstanding - 1
    /\ raw' \in CollectResponses
    /\ pc' = "efetch"
    /\ UNCHANGED <<setup, pieces, ret, batch, term_idx, retstart, ids, all_ids, batch_index,
                   individuals, edna, method, attempts, requests, slept, gap, out, written,
                   status>>

\* main has its IDs and starts on the batches
InitCollect ==
    /\ REGION_FILTER_ENABLED \in BOOLEAN
    /\ USE_LATLON_BOX = TRUE
    /\ CLASSIFY_EDNA \in BOOLEAN
    /\ EDNA_REGION_RELAXED = TRUE
    /\ COMPUTE_POPULATION_REP = TRUE
    /\ pc = "batches"
    /\ pieces = <<>>
    /\ ret = <<>>
    /\ NoBatch
    /\ script = "A"
    /\ ENTREZ_EMAIL = <<"m","a","b","3","6","1","@","h","u","m","b","o","l","d","t",".","e","d","u">>
    /\ SEARCH_TERMS = <<"Tardigrada[Organism]">>
    /\ term_idx = 1
    /\ retstart = 0
    /\ ids = <<"101", "202">>
    /\ all_ids = <<"101", "202">>
    /\ batch_index = 0
    /\ individuals = <<>>
    /\ edna = <<>>
    /\ method = "GET"
    /\ attempts = 0
    /\ outstanding = 0
    /\ requests = 1
    /\ slept = 0
    /\ gap = 0
    /\ raw = None
    /\ out = <<>>
    /\ written = None
    /\ status = "none"

NextCollect ==
    \/ main_batches
    \/ http_request
    \/ http_request_return_records
    \/ efetch_records
    \/ build_rows_from_parsed_rec
    \/ build_rows_from_parsed_return
    \/ main_extend
    \/ main_write

SpecCollect == InitCollect /\ [][NextCollect]_vars

----------------------------------------------------------------------------
(* C24: the order of the rows *)

\* the row is the one _build_rows_from_parsed makes of the record
RowOf(row, rec) ==
    /\ row["Species_ID"] = rec.organism
    /\ row["Locality"] = rec.locality
    /\ row["Depth"] = rec.depth
    /\ row["Collection_Date"] = rec.date
    /\ row["Citation_DOI"] = rec.doi
    /\ \A c \in {"COI", "18S", "28S", "ITS1", "ITS2"} : row[c] \in {<<>>, rec.accession}

\* the rows of old are the first rows of new, in their order, with no change but
\* to Population_Representation
Kept(new, old) ==
    /\ Len(new) >= Len(old)
    /\ \A i \in 1..Len(old) :
          new[i] = [old[i] EXCEPT !["Population_Representation"] =
                                      new[i]["Population_Representation"]]

\* new is old, or old followed by the row of the record
SameOrOneMore(new, old, rec) ==
    \/ new = old
    \/ /\ Len(new) = Len(old) + 1
       /\ SubSeq(new, 1, Len(old)) = old
       /\ RowOf(new[Len(new)], rec)

\* C24: the rows of a batch are appended to ind_rows and edna_rows record after
\* record, at most one row for a record; main appends the rows of a batch after
\* those of the batches before it; no step takes a row out of individuals or
\* edna or moves it, and add_population_rep changes nothing but
\* Population_Representation.
C24_OrderOfDiscovery ==
    [][/\ Kept(individuals', individuals)
       /\ Kept(edna', edna)
       /\ (pc = "loop" /\ idx < Len(parsed)) =>
             /\ SameOrOneMore(ind_rows', ind_rows, parsed[idx + 1])
             /\ SameOrOneMore(edna_rows', edna_rows, parsed[idx + 1])
             /\ ind_rows' = ind_rows \/ edna_rows' = edna_rows
       /\ (pc = "loop" /\ pc' = "done") => ret' = <<ind_rows, edna_rows>>
       /\ pc = "done" =>
             /\ individuals' = individuals \o ret[1]
             /\ edna' = edna \o ret[2]
       /\ pc = "write" =>
             /\ Len(individuals') = Len(individuals)
             /\ edna' = edna
       /\ pc \notin {"done", "write"} => (individuals' = individuals /\ edna' = edna)
      ]_vars

\* the run has written the rows of two batches: three records of one population
\* in the order AB2, MK1.2, MK1.2 and an environmental record
C24_Witness ==
    /\ status = "done"
    /\ Len(individuals) = 3
    /\ individuals[1]["COI"] = <<"A","B","2">>
    /\ individuals[2]["COI"] = <<"M","K","1",".","2">>
    /\ individuals[3]["COI"] = <<"M","K","1",".","2">>
    /\ individuals[1]["Population_Representation"] = <<"3">>
    /\ Len(edna) = 1
    /\ out = <<"format=INSDSeq", "format=INSDSeq">>

----------------------------------------------------------------------------
(* C25: every record of a batch gives one row or one drop *)

\* the list got one more row at its end
OneMore(new, old) == Len(new) = Len(old) + 1 /\ SubSeq(new, 1, Len(old)) = old

\* C25: under every setting of the region, eDNA and relaxed flags, a record of the
\* batch gives exactly one of: a row at the end of ind_rows, a row at the end of
\* edna_rows, one more drop; so the rows of both lists and the drops add up to the
\* records gone through, and to the whole batch when the function returns.  Drops
\* are only counted with the region filter on.
C25_EveryRecordCounted ==
    [][/\ AtRecord =>
             \/ OneMore(ind_rows', ind_rows) /\ edna_rows' = edna_rows /\ drops' = drops
             \/ ind_rows' = ind_rows /\ OneMore(edna_rows', edna_rows) /\ drops' = drops
             \/ /\ ind_rows' = ind_rows /\ edna_rows' = edna_rows /\ drops' = drops + 1
                /\ REGION_FILTER_ENABLED
       /\ Len(ind_rows') + Len(edna_rows') + drops' = idx'
       /\ pc' = "done" => Len(ret'[1]) + Len(ret'[2]) + drops' = Len(parsed')
      ]_vars

\* strict eDNA rule: of a batch of two the eDNA record outside the region was
\* dropped and counted and the individual inside was kept
C25_Witness ==
    /\ REGION_FILTER_ENABLED /\ CLASSIFY_EDNA /\ ~EDNA_REGION_RELAXED
    /\ pc = "done" /\ Len(parsed) = 2
    /\ IsEdna(parsed[1]) /\ ~RegionOk(parsed[1])
    /\ ~IsEdna(parsed[2]) /\ RegionOk(parsed[2])
    /\ Len(ret[1]) = 1 /\ ret[2] = <<>> /\ drops = 1

----------------------------------------------------------------------------
(* C26: the two lists of rows hold one Data_Type each *)

\* every row of the list is of the type
AllOfType(rows, type) == \A i \in 1..Len(rows) : rows[i]["Data_Type"] = type

\* the cell of the k-th row under the header of a written sheet
Cell(t, k, field) ==
    written[t].rows[k + 1][CHOOSE c \in 1..Len(FIELDS) : FIELDS[c] = field]

\* C26: at every point of a run the rows of individuals, and of ind_rows while a
\* batch is built, have Data_Type "Individual" and those of edna and edna_rows
\* have Data_Type "eDNA"; no eDNA row ever has a Population_Representation, in
\* the list or in the written eDNA sheet, and the sheets hold the rows of their
\* list.
C26_PartitionedByType ==
    /\ AllOfType(individuals, <<"I","n","d","i","v","i","d","u","a","l">>)
    /\ AllOfType(ind_rows, <<"I","n","d","i","v","i","d","u","a","l">>)
    /\ AllOfType(edna, <<"e","D","N","A">>)
    /\ AllOfType(edna_rows, <<"e","D","N","A">>)
    /\ \A i \in 1..Len(edna) : edna[i]["Population_Representation"] = <<>>
    /\ \A i \in 1..Len(edna_rows) : edna_rows[i]["Population_Representation"] = <<>>
    /\ written # None =>
          /\ Len(written[1].rows) = Len(individuals) + 1
          /\ Len(written[2].rows) = Len(edna) + 1
          /\ \A k \in 1..Len(individuals) : Cell(1, k, "Data_Type") = <<"I","n","d","i","v","i","d","u","a","l">>
          /\ \A k \in 1..Len(edna) :
                /\ Cell(2, k, "Data_Type") = <<"e","D","N","A">>
                /\ Cell(2, k, "Population_Representation") = <<>>

\* two batches of an individual and an environmental record each: the two
\* individuals are written as a population of 2, the two eDNA rows of one place
\* without a count
C26_Witness ==
    /\ status = "done"
    /\ Len(individuals) = 2 /\ Len(edna) = 2
    /\ edna[1] = edna[2]
    /\ Cell(1, 1, "Population_Representation") = <<"2">>
    /\ Cell(1, 2, "Population_Representation") = <<"2">>
    /\ Cell(2, 1, "Population_Representation") = <<>>
    /\ Cell(2, 2, "Data_Type") = <<"e","D","N","A">>
    /\ out = <<"format=INSDSeq", "format=INSDSeq">>

----------------------------------------------------------------------------
(* The batching loop of main for any batch size *)

MaxBatch == 6

\* the batch size of the run
batch_size == pieces[1]

\* the main script, one turn of `for b in range(total_batches)`: the batch at
\* b * EFETCH_BATCH goes to efetch_records
efetch_batch ==
    /\ pc = "batches"
    /\ script = "A"
    /\ batch_index < total_batches_for(all_ids, batch_size)
    /\ out' = Append(out, id_batch_for(all_ids, batch_index * batch_size, batch_size))
    /\ batch_index' = batch_index + 1
    /\ UNCHANGED <<cfg, pc, pieces, ret, batch, setup, term_idx, retstart, ids, all_ids,
                   individuals, edna, net, written, status>>

\* the extraction script, one turn of
\* `for b, start in enumerate(range(0, len(ids), EFETCH_BATCH), 1)`
efetch_batch_B ==
    /\ pc = "batches"
    /\ script = "B"
    /\ batch_index * batch_size < Len(ids)
    /\ out' = Append(out, id_batch_for(ids, batch_index * batch_size, batch_size))
    /\ batch_index' = batch_index + 1
    /\ UNCHANGED <<cfg, pc, pieces, ret, batch, setup, term_idx, retstart, ids, all_ids,
                   individuals, edna, net, written, status>>

\* the range of the loop is used up
batches_end ==
    /\ pc = "batches"
    /\ IF script = "A"
       THEN ~(batch_index < total_batches_for(all_ids, batch_size))
       ELSE ~(batch_index * batch_size < Len(ids))
    /\ pc' = "done"
    /\ UNCHANGED <<cfg, pieces, ret, batch, run>>

\* main has found 1 to MaxFound different IDs; EFETCH_BATCH is 1 to MaxBatch
InitBatch ==
    /\ DefaultCfg
    /\ pc = "batches"
    /\ \E size \in 1..MaxBatch : pieces = <<size>>
    /\ ret = <<>>
    /\ NoBatch
    /\ script \in {"A", "B"}
    /\ ENTREZ_EMAIL = <<"m","a","b","3","6","1","@","h","u","m","b","o","l","d","t",".","e","d","u">>
    /\ SEARCH_TERMS = <<"Tardigrada[Organism]">>
    /\ term_idx = 1
    /\ retstart = 0
    /\ \E n \in 1..MaxFound : ids = SubSeq(Catalogue, 1, n)
    /\ all_ids = ids
    /\ batch_index = 0
    /\ individuals = <<>>
    /\ edna = <<>>
    /\ method = "GET"
    /\ attempts = 0
    /\ outstanding = 0
    /\ requests = 0
    /\ slept = 0
    /\ gap = 0
    /\ raw = None
    /\ out = <<>>
    /\ written = None
    /\ status = "none"

NextBatch == efetch_batch \/ efetch_batch_B \/ batches_end

SpecBatch == InitBatch /\ [][NextBatch]_vars

----------------------------------------------------------------------------
(* C27: the batches cover the IDs *)

RECURSIVE Flat(_)
Flat(lists) == IF lists = <<>> THEN <<>> ELSE Head(lists) \o Flat(Tail(lists))

\* the least c with c * size >= n
Ceil(n, size) == CHOOSE c \in 0..n : c * size >= n /\ \A d \in 0..(c - 1) : d * size < n

\* the batches an ID is in
BatchesOf(id) == {k \in 1..Len(out) : \E j \in 1..Len(out[k]) : out[k][j] = id}

\* C27: for 1 to MaxFound IDs and every batch size from 1 to MaxBatch, in both
\* scripts: the batches sent so far are, one after the other, the first IDs of
\* the list in its order; every batch holds at least one and at most EFETCH_BATCH
\* IDs; no ID is in two batches; and when the loop ends every ID has been sent in
\* exactly one batch and ceil(n / EFETCH_BATCH) batches have been sent.
C27_BatchesCoverIds ==
    /\ \A k \in 1..Len(out) : Len(out[k]) >= 1 /\ Len(out[k]) <= batch_size
    /\ Len(Flat(out)) <= Len(batched_ids)
    /\ Flat(out) = SubSeq(batched_ids, 1, Len(Flat(out)))
    /\ \A i \in 1..Len(batched_ids) : Cardinality(BatchesOf(batched_ids[i])) <= 1
    /\ Len(out) = batch_index
    /\ Len(out) <= Ceil(Len(batched_ids), batch_size)
    /\ pc = "done" =>
          /\ Flat(out) = batched_ids
          /\ \A i \in 1..Len(batched_ids) : Cardinality(BatchesOf(batched_ids[i])) = 1
          /\ Len(out) = Ceil(Len(batched_ids), batch_size)

\* the extraction script has sent five IDs in batches of two: two full batches
\* and a last one of a single ID
C27_Witness ==
    /\ pc = "done"
    /\ script = "B"
    /\ batch_size = 2
    /\ Len(ids) = 5
    /\ Len(out) = 3
    /\ Len(out[3]) = 1
    /\ out[3][1] = ids[5]

====
